---- MODULE Spec2Model ----
(***************************************************************************)
(* Model of the GN build-generator backend: path algebra                   *)
(* (filesystem_utils.cc), the build-settings container (build_settings.cc) *)
(* and target resolution (target.h).                                       *)
(*                                                                         *)
(* A path is a sequence of one-character strings.  The source indexes      *)
(* strings from 0; the model keeps the source's indices and reads          *)
(* characters through At.                                                  *)
(***************************************************************************)
EXTENDS Integers, Sequences, FiniteSets, TLC

VARIABLES
  norm,   \* one run of NormalizePath: the buffer and the loop's locals
  reb,    \* one call of RebaseSourceAbsolutePath
  inv,    \* one call of InvertDir
  mk,     \* one call of MakeAbsolutePathRelativeIfPossible
  bs,     \* the BuildSettings objects
  tg,     \* the Target arena
  gen,    \* one call of TargetGenerator::GenerateTarget
  prov,   \* one ScopePerFileProvider and the settings it reads
  wr,     \* one run of NinjaBinaryTargetWriter
  thr     \* concurrent GenerateTarget calls: threads, heap of targets, sink

vars == <<norm, reb, inv, mk, bs, tg, gen, prov, wr, thr>>

----------------------------------------------------------------------------
(* Bounds *)

\* longest enumerated input of NormalizePath
MaxLen == 6
\* longest enumerated source-absolute path after its "//" anchor
MaxTail == 4
\* longest enumerated absolute OS path
MaxAbsLen == 5
\* longest build directory handed to SetBuildDir, after its "//" anchor
MaxBuildDirTail == 4
\* most setter and copy-constructor calls in one run of BuildSettings
MaxCalls == 4
\* longest deps list of a target
MaxDeps == 2
\* longest argument list handed to GenerateTarget
MaxArgs == 2
\* GenerateTarget calls running at the same time
MaxThreads == 2
\* calls of fill steps on one generator
MaxFillCalls == 2
\* longest sources list of a written target
MaxSources == 2

----------------------------------------------------------------------------
(* Strings *)

At(s, i) == s[i + 1]

Write(s, i, c) == [s EXCEPT ![i + 1] = c]

\* substr(pos, n) of std::string / StringPiece
Substr(s, pos, n) == SubSeq(s, pos + 1, pos + n)

Min(a, b) == IF a < b THEN a ELSE b

SeqsUpTo(alphabet, n) == UNION {[1..k -> alphabet] : k \in 0..n}

IsSlash(c) == c = "/" \/ c = "\\"

RECURSIVE Repeat(_, _)
Repeat(s, k) == IF k = 0 THEN <<>> ELSE s \o Repeat(s, k - 1)

DotDotSlash == <<".", ".", "/">>

----------------------------------------------------------------------------
(* NormalizePath *)

\* ClassifyAfterDot forgetting to consume the slash after a single dot
ClassifyAfterDotLeavesSlash(path, after_dot) ==
  IF after_dot = Len(path)
    THEN [disposition |-> "DIRECTORY_CUR", consumed_len |-> 1]
  ELSE IF IsSlash(At(path, after_dot))
    THEN [disposition |-> "DIRECTORY_CUR", consumed_len |-> 1]
  ELSE IF At(path, after_dot) = "." /\ after_dot + 1 = Len(path)
    THEN [disposition |-> "DIRECTORY_UP", consumed_len |-> 2]
  ELSE IF At(path, after_dot) = "." /\ IsSlash(At(path, after_dot + 1))
    THEN [disposition |-> "DIRECTORY_UP", consumed_len |-> 3]
  ELSE [disposition |-> "NOT_A_DIRECTORY", consumed_len |-> 1]

ClassifyAfterDot(path, after_dot) ==
  IF after_dot = Len(path)
    THEN [disposition |-> "DIRECTORY_CUR", consumed_len |-> 1]
  ELSE IF IsSlash(At(path, after_dot))
    THEN [disposition |-> "DIRECTORY_CUR", consumed_len |-> 2]
  ELSE IF At(path, after_dot) = "." /\ after_dot + 1 = Len(path)
    THEN [disposition |-> "DIRECTORY_UP", consumed_len |-> 2]
  ELSE IF At(path, after_dot) = "." /\ IsSlash(At(path, after_dot + 1))
    THEN [disposition |-> "DIRECTORY_UP", consumed_len |-> 3]
  ELSE [disposition |-> "NOT_A_DIRECTORY", consumed_len |-> 1]

\* the locals of NormalizePath before the loop
NormalizeStart(path) ==
  LET absolute == path # <<>> /\ At(path, 0) = "/"
      top == IF absolute
               THEN (IF Len(path) > 1 /\ At(path, 1) = "/" THEN 2 ELSE 1)
               ELSE 0
  IN [pathbuf |-> path, src_i |-> top, dest_i |-> top, top_index |-> top,
      is_relative |-> ~absolute]

\* "find the previous slash or the beginning of input"
RECURSIVE PreviousSlash(_, _)
PreviousSlash(pathbuf, dest_i) ==
  IF dest_i > 0 /\ ~IsSlash(At(pathbuf, dest_i - 1))
    THEN PreviousSlash(pathbuf, dest_i - 1)
    ELSE dest_i

\* copy pathbuf[src_i] to pathbuf[dest_i], advancing both
CopyChar(s) ==
  [s EXCEPT !.pathbuf = Write(s.pathbuf, s.dest_i, At(s.pathbuf, s.src_i)),
            !.dest_i = s.dest_i + 1, !.src_i = s.src_i + 1]

\* DirectoryUp keeping ".." at the top of an absolute path too
DirectoryUpKeepsAtRoot(s, consumed_len) ==
  LET d1 == IF s.dest_i > s.top_index THEN s.dest_i - 1 ELSE s.dest_i
  IN IF d1 = s.top_index
       THEN LET b1 == Write(Write(s.pathbuf, d1, "."), d1 + 1, ".")
                b2 == IF consumed_len = 3 THEN Write(b1, d1 + 2, "/") ELSE b1
                d2 == IF consumed_len = 3 THEN d1 + 3 ELSE d1 + 2
            IN [s EXCEPT !.pathbuf = b2, !.dest_i = d2, !.top_index = d2,
                         !.src_i = s.src_i + consumed_len]
       ELSE [s EXCEPT !.dest_i = PreviousSlash(s.pathbuf, d1),
                      !.src_i = s.src_i + consumed_len]

\* DirectoryUp without making the kept ".." a new root
DirectoryUpNoNewRoot(s, consumed_len) ==
  LET d1 == IF s.dest_i > s.top_index THEN s.dest_i - 1 ELSE s.dest_i
  IN IF d1 = s.top_index
       THEN IF s.is_relative
              THEN LET b1 == Write(Write(s.pathbuf, d1, "."), d1 + 1, ".")
                       b2 == IF consumed_len = 3 THEN Write(b1, d1 + 2, "/") ELSE b1
                       d2 == IF consumed_len = 3 THEN d1 + 3 ELSE d1 + 2
                   IN [s EXCEPT !.pathbuf = b2, !.dest_i = d2,
                                !.src_i = s.src_i + consumed_len]
              ELSE [s EXCEPT !.dest_i = d1, !.src_i = s.src_i + consumed_len]
       ELSE [s EXCEPT !.dest_i = PreviousSlash(s.pathbuf, d1),
                      !.src_i = s.src_i + consumed_len]

\* the DIRECTORY_UP case
DirectoryUp(s, consumed_len) ==
  LET d1 == IF s.dest_i > s.top_index THEN s.dest_i - 1 ELSE s.dest_i
  IN IF d1 = s.top_index
       THEN IF s.is_relative
              THEN LET b1 == Write(Write(s.pathbuf, d1, "."), d1 + 1, ".")
                       b2 == IF consumed_len = 3 THEN Write(b1, d1 + 2, "/") ELSE b1
                       d2 == IF consumed_len = 3 THEN d1 + 3 ELSE d1 + 2
                   IN [s EXCEPT !.pathbuf = b2, !.dest_i = d2, !.top_index = d2,
                                !.src_i = s.src_i + consumed_len]
              ELSE [s EXCEPT !.dest_i = d1, !.src_i = s.src_i + consumed_len]
       ELSE [s EXCEPT !.dest_i = PreviousSlash(s.pathbuf, d1),
                      !.src_i = s.src_i + consumed_len]

\* one iteration of the for loop
NormalizeStep(s) ==
  LET c == At(s.pathbuf, s.src_i)
  IN IF c = "."
       THEN IF s.src_i = 0 \/ IsSlash(At(s.pathbuf, s.src_i - 1))
              THEN LET cl == ClassifyAfterDot(s.pathbuf, s.src_i + 1)
                   IN CASE cl.disposition = "NOT_A_DIRECTORY" -> CopyChar(s)
                        [] cl.disposition = "DIRECTORY_CUR" ->
                             [s EXCEPT !.src_i = s.src_i + cl.consumed_len]
                        [] cl.disposition = "DIRECTORY_UP" ->
                             DirectoryUp(s, cl.consumed_len)
              ELSE CopyChar(s)
     ELSE IF IsSlash(c)
       THEN IF s.src_i > 0 /\ IsSlash(At(s.pathbuf, s.src_i - 1))
              THEN [s EXCEPT !.src_i = s.src_i + 1]
              ELSE [s EXCEPT !.pathbuf = Write(s.pathbuf, s.dest_i, "/"),
                             !.dest_i = s.dest_i + 1, !.src_i = s.src_i + 1]
     ELSE CopyChar(s)

RECURSIVE NormalizeLoop(_)
NormalizeLoop(s) ==
  IF s.src_i < Len(s.pathbuf) THEN NormalizeLoop(NormalizeStep(s)) ELSE s

\* path->resize(dest_i)
Resize(s) == SubSeq(s.pathbuf, 1, s.dest_i)

NormalizePath(path) == Resize(NormalizeLoop(NormalizeStart(path)))

----------------------------------------------------------------------------
(* IsPathAbsolute, MakeAbsolutePathRelativeIfPossible (non-Windows build) *)

IsPathAbsolute(path) ==
  IF path = <<>> THEN FALSE
  ELSE IF ~IsSlash(At(path, 0)) THEN FALSE
  ELSE IF Len(path) > 1 /\ At(path, 1) = "/" THEN FALSE
  ELSE TRUE

\* "skip all slashes from the path after our prefix match"
RECURSIVE SkipSlashes(_, _)
SkipSlashes(path, first_after_slash) ==
  IF first_after_slash < Len(path) /\ IsSlash(At(path, first_after_slash))
    THEN SkipSlashes(path, first_after_slash + 1)
    ELSE first_after_slash

MakeAbsolutePathRelativeIfPossible(source_root, path) ==
  IF Len(source_root) > Len(path)
    THEN [ok |-> FALSE, dest |-> <<>>]
  ELSE IF Substr(path, 0, Len(source_root)) = source_root
    THEN LET first_after_slash == SkipSlashes(path, Len(source_root))
         IN [ok |-> TRUE,
             dest |-> <<"/", "/">> \o
                      Substr(path, first_after_slash, Len(path) - first_after_slash)]
  ELSE [ok |-> FALSE, dest |-> <<>>]

----------------------------------------------------------------------------
(* InvertDir *)

\* InvertDirLoop stopping one character early
RECURSIVE InvertDirLoopStopsEarly(_, _)
InvertDirLoopStopsEarly(value, i) ==
  IF i >= Len(value) - 1 THEN <<>>
  ELSE (IF IsSlash(At(value, i)) THEN DotDotSlash ELSE <<>>)
         \o InvertDirLoopStopsEarly(value, i + 1)

\* the loop of InvertDir: one "../" per slash from index i on
RECURSIVE InvertDirLoop(_, _)
InvertDirLoop(value, i) ==
  IF i >= Len(value) THEN <<>>
  ELSE (IF IsSlash(At(value, i)) THEN DotDotSlash ELSE <<>>)
         \o InvertDirLoop(value, i + 1)

\* InvertDir skipping only the first slash of the "//" anchor
InvertDirCountsAnchor(value) ==
  IF value = <<>> THEN <<>> ELSE InvertDirLoop(value, 1)

InvertDir(value) ==
  IF value = <<>> THEN <<>>
  ELSE LET begin_index == IF Len(value) > 1 /\ At(value, 1) = "/" THEN 2 ELSE 1
       IN InvertDirLoop(value, begin_index)

----------------------------------------------------------------------------
(* RebaseSourceAbsolutePath *)

\* CommonPrefixLen taking every equal character as common
RECURSIVE CommonPrefixLenAnyChar(_, _, _, _)
CommonPrefixLenAnyChar(input, dest, i, common_prefix_len) ==
  IF i >= Min(Len(input), Len(dest)) THEN common_prefix_len
  ELSE IF At(input, i) # At(dest, i) THEN common_prefix_len
  ELSE CommonPrefixLenAnyChar(input, dest, i + 1, i + 1)

\* the first loop: the common prefix of input and dest ending in a slash
RECURSIVE CommonPrefixLen(_, _, _, _)
CommonPrefixLen(input, dest, i, common_prefix_len) ==
  IF i >= Min(Len(input), Len(dest)) THEN common_prefix_len
  ELSE IF IsSlash(At(input, i)) /\ IsSlash(At(dest, i))
    THEN CommonPrefixLen(input, dest, i + 1, i + 1)
  ELSE IF At(input, i) # At(dest, i) THEN common_prefix_len
  ELSE CommonPrefixLen(input, dest, i + 1, common_prefix_len)

\* the second loop: invert dest from the end of the common prefix
RECURSIVE RebaseInvertLoop(_, _)
RebaseInvertLoop(dest, i) ==
  IF i >= Len(dest) THEN <<>>
  ELSE (IF IsSlash(At(dest, i)) THEN DotDotSlash ELSE <<>>)
         \o RebaseInvertLoop(dest, i + 1)

RebaseSourceAbsolutePath(input, dest) ==
  LET common_prefix_len == CommonPrefixLen(input, dest, 2, 2)
      ret == RebaseInvertLoop(dest, common_prefix_len)
               \o Substr(input, common_prefix_len, Len(input) - common_prefix_len)
  IN IF ret = <<>> THEN <<".">> ELSE ret

----------------------------------------------------------------------------
(* Inputs *)

PathAlphabet == {"/", "\\", ".", "a"}

SourceAlphabet == {"/", ".", "a", "b"}

OsAlphabet == {"/", "a", "b"}

\* the paths of the documented examples
DocSourcePath == <<"/", "/", "a", "/", "b", "/", ".", ".", "/", ".", ".", "/", "c">>
DocRelativePath == <<"a", "/", "b", "/", ".", ".", "/", ".", ".", "/", ".", ".">>
DocSystemPath == <<"/", "a", "/", ".", ".", "/", ".", ".", "/", "b">>
DocBuildDir == <<"/", "/", "o", "u", "t", "/", "D", "e", "b", "u", "g", "/">>

NormalizeInputs ==
  SeqsUpTo(PathAlphabet, MaxLen) \cup {DocSourcePath, DocRelativePath, DocSystemPath}

EndsWithSlash(s) == s # <<>> /\ IsSlash(At(s, Len(s) - 1))

IsSourceAbsolute(s) == Len(s) >= 2 /\ At(s, 0) = "/" /\ At(s, 1) = "/"

\* canonical source-absolute values: what a SourceFile or SourceDir holds
SourceAbsolutePaths ==
  {p \in {<<"/", "/">> \o t : t \in SeqsUpTo(SourceAlphabet, MaxTail)} :
     NormalizePath(p) = p}

SourceAbsoluteDirs == {p \in SourceAbsolutePaths : EndsWithSlash(p)}

\* every "//"-anchored string ending in a separator, canonical or not
RawSourceDirs ==
  {p \in {<<"/", "/">> \o t : t \in SeqsUpTo(PathAlphabet, MaxTail)} :
     EndsWithSlash(p)}

InvertInputs == RawSourceDirs \cup SourceAbsoluteDirs \cup {<<>>, DocBuildDir}

AbsoluteOsPaths == {p \in SeqsUpTo(OsAlphabet, MaxAbsLen) : IsPathAbsolute(p)}

\* "a canonical source-root absolute path"
SourceRoots == {p \in AbsoluteOsPaths : NormalizePath(p) = p}

----------------------------------------------------------------------------
(* Idle values of the parts a specification does not exercise *)

NormIdle == [input |-> <<>>, s |-> NormalizeStart(<<>>), pc |-> "idle"]
RebIdle == [input |-> <<>>, dest_dir |-> <<>>, ret |-> <<>>, pc |-> "idle"]
InvIdle == [path |-> <<>>, ret |-> <<>>, pc |-> "idle"]
MkIdle == [source_root |-> <<>>, path |-> <<>>, ok |-> FALSE, dest |-> <<>>,
           pc |-> "idle"]
BsIdle == [calls |-> 0]
TgIdle == [resolved |-> <<>>]
GenIdle == [pc |-> "idle"]
ProvIdle == [pc |-> "idle"]
WrIdle == [pc |-> "idle"]
ThrIdle == [pc |-> "idle"]

----------------------------------------------------------------------------
(* NormalizePath, one loop iteration per step *)

InitNorm ==
  /\ \E p \in NormalizeInputs :
       norm = [input |-> p, s |-> NormalizeStart(p), pc |-> "loop"]
  /\ reb = RebIdle /\ inv = InvIdle /\ mk = MkIdle /\ bs = BsIdle /\ tg = TgIdle /\ gen = GenIdle /\ prov = ProvIdle /\ wr = WrIdle /\ thr = ThrIdle

NormalizeIterate ==
  /\ norm.pc = "loop"
  /\ norm.s.src_i < Len(norm.s.pathbuf)
  /\ norm' = [norm EXCEPT !.s = NormalizeStep(norm.s)]
  /\ UNCHANGED <<reb, inv, mk, bs, tg, gen, prov, wr, thr>>

NormalizeResize ==
  /\ norm.pc = "loop"
  /\ norm.s.src_i >= Len(norm.s.pathbuf)
  /\ norm' = [norm EXCEPT !.s.pathbuf = Resize(norm.s), !.pc = "done"]
  /\ UNCHANGED <<reb, inv, mk, bs, tg, gen, prov, wr, thr>>

NextNorm == NormalizeIterate \/ NormalizeResize

SpecNorm == InitNorm /\ [][NextNorm]_vars

----------------------------------------------------------------------------
(* RebaseSourceAbsolutePath applied to a file and a directory *)

InitRebase ==
  /\ \E f \in SourceAbsolutePaths, d \in SourceAbsoluteDirs :
       reb = [input |-> f, dest_dir |-> d, ret |-> <<>>, pc |-> "call"]
  /\ norm = NormIdle /\ inv = InvIdle /\ mk = MkIdle /\ bs = BsIdle /\ tg = TgIdle /\ gen = GenIdle /\ prov = ProvIdle /\ wr = WrIdle /\ thr = ThrIdle

Rebase ==
  /\ reb.pc = "call"
  /\ reb' = [reb EXCEPT !.ret = RebaseSourceAbsolutePath(reb.input, reb.dest_dir),
                        !.pc = "done"]
  /\ UNCHANGED <<norm, inv, mk, bs, tg, gen, prov, wr, thr>>

NextRebase == Rebase

SpecRebase == InitRebase /\ [][NextRebase]_vars

----------------------------------------------------------------------------
(* InvertDir applied to a directory *)

InitInvert ==
  /\ \E d \in InvertInputs : inv = [path |-> d, ret |-> <<>>, pc |-> "call"]
  /\ norm = NormIdle /\ reb = RebIdle /\ mk = MkIdle /\ bs = BsIdle /\ tg = TgIdle /\ gen = GenIdle /\ prov = ProvIdle /\ wr = WrIdle /\ thr = ThrIdle

Invert ==
  /\ inv.pc = "call"
  /\ inv' = [inv EXCEPT !.ret = InvertDir(inv.path), !.pc = "done"]
  /\ UNCHANGED <<norm, reb, mk, bs, tg, gen, prov, wr, thr>>

NextInvert == Invert

SpecInvert == InitInvert /\ [][NextInvert]_vars

----------------------------------------------------------------------------
(* MakeAbsolutePathRelativeIfPossible applied to a root and a candidate *)

InitMake ==
  /\ \E r \in SourceRoots, p \in AbsoluteOsPaths :
       mk = [source_root |-> r, path |-> p, ok |-> FALSE, dest |-> <<>>,
             pc |-> "call"]
  /\ norm = NormIdle /\ reb = RebIdle /\ inv = InvIdle /\ bs = BsIdle /\ tg = TgIdle /\ gen = GenIdle /\ prov = ProvIdle /\ wr = WrIdle /\ thr = ThrIdle

MakeRelative ==
  /\ mk.pc = "call"
  /\ LET r == MakeAbsolutePathRelativeIfPossible(mk.source_root, mk.path)
     IN mk' = [mk EXCEPT !.ok = r.ok, !.dest = r.dest, !.pc = "done"]
  /\ UNCHANGED <<norm, reb, inv, bs, tg, gen, prov, wr, thr>>

NextMake == MakeRelative

SpecMake == InitMake /\ [][NextMake]_vars

----------------------------------------------------------------------------
(* BuildSettings *)

\* SourceDir::Resolve: the OS path of a directory under a source root
Resolve(dir, source_root) ==
  IF dir = <<>> THEN <<>>
  ELSE IF ~IsSourceAbsolute(dir) THEN dir
  ELSE LET converted == Substr(dir, 2, Len(dir) - 2)
       IN IF converted = <<>> THEN source_root
          ELSE IF source_root = <<>> THEN converted
          ELSE source_root \o <<"/">> \o converted

\* non-Windows: the 8-bit string unchanged
FilePathToUTF8(str) == str

\* BuildSettings::BuildSettings()
DefaultBuildSettings ==
  [live |-> TRUE,
   root_path |-> <<>>, root_path_utf8 |-> <<>>,
   secondary_source_path |-> <<>>, python_path |-> <<>>,
   build_config_file |-> <<>>, build_dir |-> <<>>,
   build_to_source_dir_string |-> <<>>, build_args |-> {},
   item_defined_callback |-> "null"]

\* an object that has not been constructed
NoBuildSettings == [DefaultBuildSettings EXCEPT !.live = FALSE]

\* a copy constructor that also copies the callback
CopyBuildSettingsWithCallback(other) == [other EXCEPT !.live = TRUE]

\* BuildSettings::BuildSettings(const BuildSettings& other)
CopyBuildSettings(other) ==
  [live |-> TRUE,
   root_path |-> other.root_path,
   root_path_utf8 |-> other.root_path_utf8,
   secondary_source_path |-> other.secondary_source_path,
   python_path |-> other.python_path,
   build_config_file |-> other.build_config_file,
   build_dir |-> other.build_dir,
   build_to_source_dir_string |-> other.build_to_source_dir_string,
   build_args |-> other.build_args,
   item_defined_callback |-> "null"]

\* SetRootPath resolving the secondary source path again
SetRootPathOfMovingSecondary(b, r) ==
  [b EXCEPT !.root_path = r, !.root_path_utf8 = FilePathToUTF8(r),
            !.secondary_source_path =
              IF @ = <<>> THEN @ ELSE r \o Substr(@, Len(b.root_path), Len(@) - Len(b.root_path))]

\* BuildSettings::SetRootPath
SetRootPathOf(b, r) ==
  [b EXCEPT !.root_path = r, !.root_path_utf8 = FilePathToUTF8(r)]

\* BuildSettings::GetFullPath(const SourceDir&)
GetFullPath(b, dir) == Resolve(dir, b.root_path)

\* BuildSettings::GetFullPathSecondary(const SourceDir&)
GetFullPathSecondary(b, dir) == Resolve(dir, b.secondary_source_path)

\* BuildSettings::SetSecondarySourcePath
SetSecondarySourcePathOf(b, d) ==
  [b EXCEPT !.secondary_source_path = GetFullPath(b, d)]

\* SetBuildDir leaving the inverse string as it was
SetBuildDirOfStale(b, d) == [b EXCEPT !.build_dir = d]

\* BuildSettings::SetBuildDir
SetBuildDirOf(b, d) ==
  [b EXCEPT !.build_dir = d, !.build_to_source_dir_string = InvertDir(d)]

BuildSettingsIds == {"original", "copy"}

\* root paths do not end in a separator
RootPaths == {<<"/", "r">>, <<"/", "s">>}

SecondaryDirs == {<<"/", "/", "a", "/">>}

BuildDirs ==
  {p \in {<<"/", "/">> \o t : t \in SeqsUpTo({"/", "a"}, MaxBuildDirTail)} :
     EndsWithSlash(p) /\ NormalizePath(p) = p}

PythonPath == <<"/", "p", "y">>

BuildConfigFile == <<"/", "/", "c", "f", "g">>

InitBuildSettings ==
  /\ bs = [original |-> DefaultBuildSettings, copy |-> NoBuildSettings,
           calls |-> 0]
  /\ norm = NormIdle /\ reb = RebIdle /\ inv = InvIdle /\ mk = MkIdle /\ tg = TgIdle /\ gen = GenIdle /\ prov = ProvIdle /\ wr = WrIdle /\ thr = ThrIdle

\* one call on the live object o that replaces it by f
Call(o, f) ==
  /\ bs.calls < MaxCalls
  /\ bs[o].live
  /\ bs' = [bs EXCEPT ![o] = f, !.calls = bs.calls + 1]
  /\ UNCHANGED <<norm, reb, inv, mk, tg, gen, prov, wr, thr>>

SetRootPath ==
  \E o \in BuildSettingsIds, r \in RootPaths : Call(o, SetRootPathOf(bs[o], r))

SetSecondarySourcePath ==
  \E o \in BuildSettingsIds, d \in SecondaryDirs :
    Call(o, SetSecondarySourcePathOf(bs[o], d))

SetBuildDir ==
  \E o \in BuildSettingsIds, d \in BuildDirs : Call(o, SetBuildDirOf(bs[o], d))

set_python_path ==
  \E o \in BuildSettingsIds : Call(o, [bs[o] EXCEPT !.python_path = PythonPath])

set_build_config_file ==
  \E o \in BuildSettingsIds :
    Call(o, [bs[o] EXCEPT !.build_config_file = BuildConfigFile])

\* a write through the mutable build_args() accessor
build_args ==
  \E o \in BuildSettingsIds :
    Call(o, [bs[o] EXCEPT !.build_args = bs[o].build_args \cup {"is_debug"}])

set_item_defined_callback ==
  \E o \in BuildSettingsIds :
    Call(o, [bs[o] EXCEPT !.item_defined_callback = o])

\* a new BuildSettings is copy-constructed from a live one
CopyConstruct ==
  \E other \in BuildSettingsIds :
    /\ bs.calls < MaxCalls
    /\ bs[other].live
    /\ bs' = [bs EXCEPT !.copy = CopyBuildSettings(bs[other]),
                        !.calls = bs.calls + 1]
    /\ UNCHANGED <<norm, reb, inv, mk, tg, gen, prov, wr, thr>>

NextBuildSettings ==
  \/ SetRootPath
  \/ SetSecondarySourcePath
  \/ SetBuildDir
  \/ set_python_path
  \/ set_build_config_file
  \/ build_args
  \/ set_item_defined_callback
  \/ CopyConstruct

SpecBuildSettings == InitBuildSettings /\ [][NextBuildSettings]_vars

----------------------------------------------------------------------------
(* Target resolution *)

Targets == {1, 2, 3}

OutputTypes == {"GROUP", "EXECUTABLE", "SHARED_LIBRARY", "STATIC_LIBRARY",
                "SOURCE_SET", "COPY_FILES", "CUSTOM"}

\* deps_ after resolution lists a group and, after it, the group's deps
RECURSIVE ExpandGroups(_, _, _)
ExpandGroups(output_type, deps, list) ==
  IF list = <<>> THEN <<>>
  ELSE LET dep == Head(list)
       IN <<dep>>
            \o (IF output_type[dep] = "GROUP" THEN deps[dep] ELSE <<>>)
            \o ExpandGroups(output_type, deps, Tail(list))

\* PullFromDep passing libraries through a shared library
PullFromDepThroughShared(output_type, inherited, dep) ==
  IF output_type[dep] \in {"STATIC_LIBRARY", "SOURCE_SET", "SHARED_LIBRARY"}
    THEN {dep} \cup inherited[dep]
  ELSE {}

\* what one dep adds to inherited_libraries_
PullFromDep(output_type, inherited, dep) ==
  IF output_type[dep] \in {"STATIC_LIBRARY", "SOURCE_SET"}
    THEN {dep} \cup inherited[dep]
  ELSE IF output_type[dep] = "SHARED_LIBRARY" THEN {dep}
  ELSE {}

\* Target::PullDependentTargetInfo: the loop over deps_
RECURSIVE PullDependentTargetInfo(_, _, _, _)
PullDependentTargetInfo(output_type, inherited, list, acc) ==
  IF list = <<>> THEN acc
  ELSE PullDependentTargetInfo(output_type, inherited, Tail(list),
         acc \cup PullFromDep(output_type, inherited, Head(list)))

\* the deps lists a build file can give target t: earlier targets only,
\* since the graph is acyclic
DepsLists(t) == SeqsUpTo({d \in Targets : d < t}, MaxDeps)

InitTargets ==
  /\ \E ot \in [Targets -> OutputTypes] :
     \E ds \in {f \in [Targets -> SeqsUpTo(Targets, MaxDeps)] :
                  \A t \in Targets : f[t] \in DepsLists(t)} :
       tg = [output_type |-> ot, deps |-> ds,
             inherited_libraries |-> [t \in Targets |-> {}],
             resolved |-> [t \in Targets |-> FALSE]]
  /\ norm = NormIdle /\ reb = RebIdle /\ inv = InvIdle /\ mk = MkIdle /\ bs = BsIdle /\ gen = GenIdle /\ prov = ProvIdle /\ wr = WrIdle /\ thr = ThrIdle

\* Target::OnResolved, called once all direct deps are resolved
OnResolved ==
  \E t \in Targets :
    /\ ~tg.resolved[t]
    /\ \A i \in 1..Len(tg.deps[t]) : tg.resolved[tg.deps[t][i]]
    /\ LET deps_ == ExpandGroups(tg.output_type, tg.deps, tg.deps[t])
       IN tg' = [tg EXCEPT
                   !.deps[t] = deps_,
                   !.inherited_libraries[t] =
                     PullDependentTargetInfo(tg.output_type,
                       tg.inherited_libraries, deps_, tg.inherited_libraries[t]),
                   !.resolved[t] = TRUE]
    /\ UNCHANGED <<norm, reb, inv, mk, bs, gen, prov, wr, thr>>

NextTargets == OnResolved

SpecTargets == InitTargets /\ [][NextTargets]_vars

----------------------------------------------------------------------------
(* TargetGenerator *)

\* the types a Value passed as a function argument can have
ValueTypes == {"STRING", "INTEGER", "LIST"}

ArgLists == SeqsUpTo(ValueTypes, MaxArgs)

\* the function names GenerateTarget dispatches on
KnownOutputTypes == {"copy", "custom", "executable", "group", "shared_library",
                     "source_set", "static_library"}

\* the function names a caller can pass, one of them not a target type
FunctionNames == KnownOutputTypes \cup {"component"}

\* what the scope holds for a variable: nothing, a value of the type the
\* extractor wants, or a value of another type
ScopeValues == {"absent", "ok", "wrong_type"}

TargetFields == {"all_dependent_configs", "direct_dependent_configs", "data",
                 "deps", "datadeps", "forward_dependent_configs_from",
                 "hard_dep", "gyp_file", "output_type"}

\* new Target(scope->settings(), label)
NewTarget == [f \in TargetFields |-> "unset"]

\* the generator's view while it runs: target_, *err_, and the record of
\* the errors raised and of the steps entered after an error
NewGenerator ==
  [target |-> NewTarget, err |-> "", errs |-> <<>>, after_error |-> {},
   mutated_after_error |-> {}]

\* a fill step is entered
Enter(g, name) ==
  [g EXCEPT !.after_error = IF g.err # "" THEN @ \cup {name} ELSE @]

\* *err_ = Err(...)
Fail(g, name) == [g EXCEPT !.err = name, !.errs = Append(@, name)]

\* a field of target_ is written
Store(g, field) ==
  [g EXCEPT !.target[field] = "set",
            !.mutated_after_error = IF g.err # "" THEN @ \cup {field} ELSE @]

\* the shape shared by the fill steps: read the variable, return if it is
\* absent, fail on a type mismatch, write the field otherwise
Fill(g, name, v) ==
  LET e == Enter(g, name)
  IN CASE v = "absent" -> e
       [] v = "wrong_type" -> Fail(e, name)
       [] OTHER -> Store(e, name)

\* TargetGenerator::FillGenericConfigs
FillGenericConfigs(g, var_name, v) == Fill(g, var_name, v)

\* TargetGenerator::FillGenericDeps
FillGenericDeps(g, var_name, v) == Fill(g, var_name, v)

\* TargetGenerator::FillForwardDependentConfigs
FillForwardDependentConfigs(g, v) == Fill(g, "forward_dependent_configs_from", v)

\* TargetGenerator::FillHardDep
FillHardDep(g, v) == Fill(g, "hard_dep", v)

\* TargetGenerator::FillDependentConfigs
FillDependentConfigsOf(g, v1, v2) ==
  FillGenericConfigs(FillGenericConfigs(g, "all_dependent_configs", v1),
                     "direct_dependent_configs", v2)

\* TargetGenerator::FillData
FillDataOf(g, v) == Fill(g, "data", v)

\* TargetGenerator::FillDependencies
FillDependenciesOf(g, v1, v2, v3, v4) ==
  FillHardDep(
    FillForwardDependentConfigs(
      FillGenericDeps(FillGenericDeps(g, "deps", v1), "datadeps", v2), v3), v4)

\* TargetGenerator::FillGypFile
FillGypFileOf(g, v) == Fill(g, "gyp_file", v)

\* DoRun of the kind-specific generator: the kind's own variables
DoRunOf(g, v) == Fill(g, "output_type", v)

\* the end of GenerateTarget handing the target over whatever *err holds
HandOverUnchecked(err, target, defined) == Append(defined, target)

\* the end of GenerateTarget: if (!err->has_error()) ItemDefined(target)
HandOver(err, target, defined) ==
  IF err = "" THEN Append(defined, target) ELSE defined

\* BuildSettings::ItemDefined: the items the callback has received
ItemDefined(b, items, sink) ==
  IF b.item_defined_callback # "null" THEN sink \o items ELSE sink

InitGenerate ==
  /\ \E args \in ArgLists, output_type \in FunctionNames :
       gen = [args |-> args, output_type |-> output_type, g |-> NewGenerator,
              defined |-> <<>>, sink |-> <<>>, pc |-> "GenerateTarget"]
  /\ \E cb \in {"null", "original"} :
       bs = [original |-> [DefaultBuildSettings EXCEPT
                             !.item_defined_callback = cb],
             copy |-> NoBuildSettings, calls |-> 0]
  /\ norm = NormIdle /\ reb = RebIdle /\ inv = InvIdle /\ mk = MkIdle /\ tg = TgIdle /\ prov = ProvIdle /\ wr = WrIdle /\ thr = ThrIdle

\* GenerateTarget up to the dispatch on output_type
GenerateTarget ==
  /\ gen.pc = "GenerateTarget"
  /\ gen' =
       IF Len(gen.args) # 1 \/ gen.args[1] # "STRING"
         THEN [gen EXCEPT !.g = Fail(gen.g, "args"), !.pc = "done"]
       ELSE IF gen.output_type \in KnownOutputTypes
         THEN [gen EXCEPT !.pc = "FillDependentConfigs"]
       ELSE [gen EXCEPT !.g = Fail(gen.g, "output_type"), !.pc = "return"]
  /\ UNCHANGED <<norm, reb, inv, mk, bs, tg, prov, wr, thr>>

FillDependentConfigs ==
  /\ gen.pc = "FillDependentConfigs"
  /\ \E v1 \in ScopeValues, v2 \in ScopeValues :
       gen' = [gen EXCEPT !.g = FillDependentConfigsOf(gen.g, v1, v2),
                          !.pc = "FillData"]
  /\ UNCHANGED <<norm, reb, inv, mk, bs, tg, prov, wr, thr>>

FillData ==
  /\ gen.pc = "FillData"
  /\ \E v \in ScopeValues :
       gen' = [gen EXCEPT !.g = FillDataOf(gen.g, v), !.pc = "FillDependencies"]
  /\ UNCHANGED <<norm, reb, inv, mk, bs, tg, prov, wr, thr>>

FillDependencies ==
  /\ gen.pc = "FillDependencies"
  /\ \E v1 \in ScopeValues, v2 \in ScopeValues, v3 \in ScopeValues,
        v4 \in ScopeValues :
       gen' = [gen EXCEPT !.g = FillDependenciesOf(gen.g, v1, v2, v3, v4),
                          !.pc = "FillGypFile"]
  /\ UNCHANGED <<norm, reb, inv, mk, bs, tg, prov, wr, thr>>

FillGypFile ==
  /\ gen.pc = "FillGypFile"
  /\ \E v \in ScopeValues :
       gen' = [gen EXCEPT !.g = FillGypFileOf(gen.g, v), !.pc = "DoRun"]
  /\ UNCHANGED <<norm, reb, inv, mk, bs, tg, prov, wr, thr>>

DoRun ==
  /\ gen.pc = "DoRun"
  /\ \E v \in ScopeValues :
       gen' = [gen EXCEPT !.g = DoRunOf(gen.g, v), !.pc = "return"]
  /\ UNCHANGED <<norm, reb, inv, mk, bs, tg, prov, wr, thr>>

\* the last statement of GenerateTarget and the ItemDefined call it makes
GenerateTargetReturn ==
  /\ gen.pc = "return"
  /\ LET defined == HandOver(gen.g.err, gen.g.target, gen.defined)
     IN gen' = [gen EXCEPT
                  !.defined = defined,
                  !.sink = ItemDefined(bs.original, defined, gen.sink),
                  !.pc = "done"]
  /\ UNCHANGED <<norm, reb, inv, mk, bs, tg, prov, wr, thr>>

NextGenerate ==
  \/ GenerateTarget
  \/ FillDependentConfigs
  \/ FillData
  \/ FillDependencies
  \/ FillGypFile
  \/ DoRun
  \/ GenerateTargetReturn

SpecGenerate == InitGenerate /\ [][NextGenerate]_vars

----------------------------------------------------------------------------
(* ScopePerFileProvider *)

\* a Value holding a string, and the null pointer
StringValue(str) == [is_null |-> FALSE, string_value |-> str]

NULL == [is_null |-> TRUE, string_value |-> <<>>]

\* DirectoryWithNoLastSlash
DirectoryWithNoLastSlash(dir) ==
  IF dir = <<>> THEN <<>>
  ELSE IF dir = <<"/">> THEN <<"/", ".">>
  ELSE IF dir = <<"/", "/">> THEN <<"/", "/", ".">>
  ELSE SubSeq(dir, 1, Len(dir) - 1)

\* GetToolchainOutputDir
GetToolchainOutputDir(settings) ==
  settings.build_settings.build_dir \o settings.toolchain_output_subdir

\* GetToolchainGenDir
GetToolchainGenDir(settings) ==
  settings.build_settings.build_dir \o settings.toolchain_output_subdir
    \o <<"g", "e", "n", "/">>

\* GetOutputDirForSourceDir
GetOutputDirForSourceDir(settings, source_dir) ==
  GetToolchainOutputDir(settings) \o <<"o", "b", "j", "/">>
    \o Substr(source_dir, 2, Len(source_dir) - 2)

\* GetGenDirForSourceDir
GetGenDirForSourceDir(settings, source_dir) ==
  GetToolchainGenDir(settings) \o Substr(source_dir, 2, Len(source_dir) - 2)

\* GetCurrentOutputDir
GetCurrentOutputDir(scope) ==
  GetOutputDirForSourceDir(scope.settings, scope.source_dir)

\* GetCurrentGenDir
GetCurrentGenDir(scope) ==
  GetGenDirForSourceDir(scope.settings, scope.source_dir)

\* Label::GetUserVisibleName(false): the directory without its last slash,
\* a colon, the name
GetUserVisibleName(label) ==
  DirectoryWithNoLastSlash(label.dir) \o <<":">> \o label.name

\* the identifiers GetProgrammaticValue answers
ProgrammaticIdentifiers ==
  {"current_toolchain", "default_toolchain", "python_path", "root_build_dir",
   "root_gen_dir", "root_out_dir", "target_gen_dir", "target_out_dir"}

\* the identifiers a scope is asked for, one of them an ordinary variable
Identifiers == ProgrammaticIdentifiers \cup {"sources"}

\* the string each Get* puts in the Value it creates
ComputeValue(ident, scope) ==
  CASE ident = "current_toolchain" ->
         GetUserVisibleName(scope.settings.toolchain_label)
    [] ident = "default_toolchain" ->
         GetUserVisibleName(scope.settings.default_toolchain_label)
    [] ident = "python_path" ->
         FilePathToUTF8(scope.settings.build_settings.python_path)
    [] ident = "root_build_dir" ->
         DirectoryWithNoLastSlash(scope.settings.build_settings.build_dir)
    [] ident = "root_gen_dir" ->
         DirectoryWithNoLastSlash(GetToolchainGenDir(scope.settings))
    [] ident = "root_out_dir" ->
         DirectoryWithNoLastSlash(GetToolchainOutputDir(scope.settings))
    [] ident = "target_gen_dir" ->
         DirectoryWithNoLastSlash(GetCurrentGenDir(scope))
    [] ident = "target_out_dir" ->
         DirectoryWithNoLastSlash(GetCurrentOutputDir(scope))

\* a Get* that builds a fresh Value on every call
GetCachedRecomputing(slot, ident, scope) == StringValue(ComputeValue(ident, scope))

\* the body shared by the eight Get*: fill the slot if it is empty
GetCached(slot, ident, scope) ==
  IF slot.is_null THEN StringValue(ComputeValue(ident, scope)) ELSE slot

\* the slots after GetProgrammaticValue(ident)
GetProgrammaticValue(cache, ident, scope) ==
  IF ident \in ProgrammaticIdentifiers
    THEN [cache EXCEPT ![ident] = GetCached(cache[ident], ident, scope)]
  ELSE cache

ProviderBuildDirs == {DocBuildDir, <<"/", "/", "o", "/">>}

ProviderPythonPaths == {PythonPath, <<"/", "p", "y", "3">>}

DefaultToolchainLabel ==
  [dir |-> <<"/", "/", "t", "c", "/">>, name |-> <<"g", "c", "c">>]

ToolchainLabels ==
  {DefaultToolchainLabel,
   [dir |-> <<"/", "/", "t", "c", "/">>, name |-> <<"m", "s">>]}

\* empty for the default toolchain, a directory segment otherwise
ToolchainOutputSubdir(label) ==
  IF label = DefaultToolchainLabel THEN <<>> ELSE label.name \o <<"/">>

ScopeSourceDir == <<"/", "/", "f", "o", "o", "/">>

InitProvider ==
  /\ \E bd \in ProviderBuildDirs, tl \in ToolchainLabels :
       prov = [scope |->
                 [settings |->
                    [build_settings |-> SetBuildDirOf(DefaultBuildSettings, bd),
                     toolchain_label |-> tl,
                     default_toolchain_label |-> DefaultToolchainLabel,
                     toolchain_output_subdir |-> ToolchainOutputSubdir(tl)],
                  source_dir |-> ScopeSourceDir],
               cache |-> [i \in ProgrammaticIdentifiers |-> NULL],
               first |-> [i \in ProgrammaticIdentifiers |-> NULL],
               ident |-> "", ret |-> NULL, pc |-> "live"]
  /\ norm = NormIdle /\ reb = RebIdle /\ inv = InvIdle /\ mk = MkIdle /\ bs = BsIdle /\ tg = TgIdle /\ gen = GenIdle /\ wr = WrIdle /\ thr = ThrIdle

\* one call of ScopePerFileProvider::GetProgrammaticValue
ProviderLookup ==
  \E ident \in Identifiers :
    /\ prov.pc = "live"
    /\ LET cache == GetProgrammaticValue(prov.cache, ident, prov.scope)
           ret == IF ident \in ProgrammaticIdentifiers THEN cache[ident]
                  ELSE NULL
       IN prov' = [prov EXCEPT
                     !.cache = cache,
                     !.first = IF ident \in ProgrammaticIdentifiers
                                  /\ prov.first[ident].is_null
                                 THEN [@ EXCEPT ![ident] = ret] ELSE @,
                     !.ident = ident,
                     !.ret = ret]
    /\ UNCHANGED <<norm, reb, inv, mk, bs, tg, gen, wr, thr>>

\* the build directory of the scope's build settings is set again
ProviderSetBuildDir ==
  \E d \in ProviderBuildDirs :
    /\ prov.pc = "live"
    /\ prov' = [prov EXCEPT !.scope.settings.build_settings =
                              SetBuildDirOf(@, d)]
    /\ UNCHANGED <<norm, reb, inv, mk, bs, tg, gen, wr, thr>>

\* the python path of the scope's build settings is set again
ProviderSetPythonPath ==
  \E py \in ProviderPythonPaths :
    /\ prov.pc = "live"
    /\ prov' = [prov EXCEPT !.scope.settings.build_settings.python_path = py]
    /\ UNCHANGED <<norm, reb, inv, mk, bs, tg, gen, wr, thr>>

NextProvider == ProviderLookup \/ ProviderSetBuildDir \/ ProviderSetPythonPath

SpecProvider == InitProvider /\ [][NextProvider]_vars

----------------------------------------------------------------------------
(* File names, source file types and output extensions *)

\* the value std::string::npos stands for
npos == -1

\* FindExtensionOffset; path[path.size()] reads the terminator
RECURSIVE FindExtensionOffsetLoop(_, _)
FindExtensionOffsetLoop(path, i) ==
  IF i < 0 THEN npos
  ELSE IF i < Len(path) /\ IsSlash(At(path, i)) THEN npos
  ELSE IF i < Len(path) /\ At(path, i) = "." THEN i + 1
  ELSE FindExtensionOffsetLoop(path, i - 1)

FindExtensionOffset(path) == FindExtensionOffsetLoop(path, Len(path))

\* FindExtension
FindExtension(path) ==
  LET extension_offset == FindExtensionOffset(path)
  IN IF extension_offset = npos THEN <<>>
     ELSE Substr(path, extension_offset, Len(path) - extension_offset)

\* FindFilenameOffset
RECURSIVE FindFilenameOffsetLoop(_, _)
FindFilenameOffsetLoop(path, i) ==
  IF i < 0 THEN 0
  ELSE IF IsSlash(At(path, i)) THEN i + 1
  ELSE FindFilenameOffsetLoop(path, i - 1)

FindFilenameOffset(path) == FindFilenameOffsetLoop(path, Len(path) - 1)

\* FindFilename
FindFilename(path) ==
  LET filename_offset == FindFilenameOffset(path)
  IN IF filename_offset = 0 THEN path
     ELSE Substr(path, filename_offset, Len(path) - filename_offset)

\* FindFilenameNoExtension
FindFilenameNoExtension(path) ==
  IF path = <<>> THEN <<>>
  ELSE LET filename_offset == FindFilenameOffset(path)
           extension_offset == FindExtensionOffset(path)
           name_len == IF extension_offset = npos
                         THEN Len(path) - filename_offset
                       ELSE extension_offset - filename_offset - 1
       IN Substr(path, filename_offset, name_len)

TargetOSes == {"MAC", "WIN", "LINUX"}

\* GetSourceFileType taking capital S for assembly on every target OS
GetSourceFileTypeAssemblyOnWindows(file, os) ==
  LET extension == FindExtension(file)
  IN IF extension \in {<<"c", "c">>, <<"c", "p", "p">>, <<"c", "x", "x">>}
       THEN "SOURCE_CC"
     ELSE IF extension = <<"h">> THEN "SOURCE_H"
     ELSE IF extension = <<"c">> THEN "SOURCE_C"
     ELSE IF os = "MAC" /\ extension = <<"m">> THEN "SOURCE_M"
     ELSE IF os = "MAC" /\ extension = <<"m", "m">> THEN "SOURCE_MM"
     ELSE IF os = "WIN" /\ extension = <<"r", "c">> THEN "SOURCE_RC"
     ELSE IF extension = <<"S">> THEN "SOURCE_S"
     ELSE "SOURCE_UNKNOWN"

\* GetSourceFileType
GetSourceFileType(file, os) ==
  LET extension == FindExtension(file)
  IN IF extension \in {<<"c", "c">>, <<"c", "p", "p">>, <<"c", "x", "x">>}
       THEN "SOURCE_CC"
     ELSE IF extension = <<"h">> THEN "SOURCE_H"
     ELSE IF extension = <<"c">> THEN "SOURCE_C"
     ELSE IF os = "MAC" /\ extension = <<"m">> THEN "SOURCE_M"
     ELSE IF os = "MAC" /\ extension = <<"m", "m">> THEN "SOURCE_MM"
     ELSE IF os = "WIN" /\ extension = <<"r", "c">> THEN "SOURCE_RC"
     ELSE IF os # "WIN" /\ extension = <<"S">> THEN "SOURCE_S"
     ELSE "SOURCE_UNKNOWN"

\* GetExtensionForOutputType; a type outside the three linked ones runs
\* into NOTREACHED and, past it, the final return ""
GetExtensionForOutputType(type, os) ==
  CASE os = "MAC" ->
         (CASE type = "EXECUTABLE" -> <<>>
            [] type = "SHARED_LIBRARY" -> <<"d", "y", "l", "i", "b">>
            [] type = "STATIC_LIBRARY" -> <<"a">>
            [] OTHER -> <<>>)
    [] os = "WIN" ->
         (CASE type = "EXECUTABLE" -> <<"e", "x", "e">>
            [] type = "SHARED_LIBRARY" -> <<"d", "l", "l", ".", "l", "i", "b">>
            [] type = "STATIC_LIBRARY" -> <<"l", "i", "b">>
            [] OTHER -> <<>>)
    [] os = "LINUX" ->
         (CASE type = "EXECUTABLE" -> <<>>
            [] type = "SHARED_LIBRARY" -> <<"s", "o">>
            [] type = "STATIC_LIBRARY" -> <<"a">>
            [] OTHER -> <<>>)
    [] OTHER -> <<>>

----------------------------------------------------------------------------
(* NinjaBinaryTargetWriter: dependency classification *)

\* Target::IsLinkable
IsLinkable(output_type) ==
  output_type \in {"STATIC_LIBRARY", "SHARED_LIBRARY"}

\* the object file extension of a platform
ObjectExtension(os) == IF os = "WIN" THEN <<"o", "b", "j">> ELSE <<"o">>

\* NinjaHelper::GetTargetOutputDir: the target's directory under obj/,
\* relative to the build directory
HelperGetTargetOutputDir(settings, target) ==
  settings.toolchain_output_subdir \o <<"o", "b", "j", "/">>
    \o Substr(target.dir, 2, Len(target.dir) - 2)

\* NinjaHelper::GetOutputFileForSource
GetOutputFileForSource(settings, target, source, type) ==
  HelperGetTargetOutputDir(settings, target) \o target.name \o <<".">>
    \o FindFilenameNoExtension(source) \o <<".">>
    \o ObjectExtension(settings.target_os)

\* the loop of ClassifyDependency taking the headers along
RECURSIVE ExpandSourceSetWithHeaders(_, _, _, _)
ExpandSourceSetWithHeaders(settings, dep, i, extra_object_files) ==
  IF i >= Len(dep.sources) THEN extra_object_files
  ELSE LET input_file_type ==
             GetSourceFileType(At(dep.sources, i), settings.target_os)
       IN ExpandSourceSetWithHeaders(settings, dep, i + 1,
            IF input_file_type # "SOURCE_UNKNOWN"
              THEN extra_object_files \cup
                     {GetOutputFileForSource(settings, dep, At(dep.sources, i),
                                             input_file_type)}
            ELSE extra_object_files)

\* the loop of ClassifyDependency over dep->sources()
RECURSIVE ExpandSourceSet(_, _, _, _)
ExpandSourceSet(settings, dep, i, extra_object_files) ==
  IF i >= Len(dep.sources) THEN extra_object_files
  ELSE LET input_file_type ==
             GetSourceFileType(At(dep.sources, i), settings.target_os)
       IN ExpandSourceSet(settings, dep, i + 1,
            IF input_file_type # "SOURCE_UNKNOWN" /\ input_file_type # "SOURCE_H"
              THEN extra_object_files \cup
                     {GetOutputFileForSource(settings, dep, At(dep.sources, i),
                                             input_file_type)}
            ELSE extra_object_files)

\* ClassifyDependency expanding a source set under any target
DependencyClassExpandsAlways(target_type, dep_type) ==
  IF dep_type = "SOURCE_SET" THEN "expanded"
  ELSE IF target_type \in {"EXECUTABLE", "SHARED_LIBRARY"}
            /\ IsLinkable(dep_type) THEN "linkable"
  ELSE "non_linkable"

\* the branch ClassifyDependency takes
DependencyClass(target_type, dep_type) ==
  LET can_link_libs == target_type \in {"EXECUTABLE", "SHARED_LIBRARY"}
  IN IF dep_type = "SOURCE_SET"
       THEN IF target_type = "SOURCE_SET" THEN "non_linkable" ELSE "expanded"
     ELSE IF can_link_libs /\ IsLinkable(dep_type) THEN "linkable"
     ELSE "non_linkable"

\* ClassifyDependency linking whenever the dep is linkable
ClassifyDependencyAlwaysLinks(settings, arena, target_, dep, out) ==
  IF IsLinkable(arena[dep].output_type)
    THEN [out EXCEPT !.linkable_deps = Append(@, dep)]
  ELSE [out EXCEPT !.non_linkable_deps = Append(@, dep)]

\* NinjaBinaryTargetWriter::ClassifyDependency; out holds the three
\* containers it writes
ClassifyDependency(settings, arena, target_, dep, out) ==
  LET class == DependencyClass(arena[target_].output_type,
                               arena[dep].output_type)
  IN CASE class = "expanded" ->
            [out EXCEPT !.extra_object_files =
                          ExpandSourceSet(settings, arena[dep], 0, @)]
       [] class = "linkable" -> [out EXCEPT !.linkable_deps = Append(@, dep)]
       [] OTHER -> [out EXCEPT !.non_linkable_deps = Append(@, dep)]

NoDeps ==
  [extra_object_files |-> {}, linkable_deps |-> <<>>,
   non_linkable_deps |-> <<>>]

SourcesDir == <<"/", "/", "f", "o", "o", "/">>

\* source files a target can list
SourceFiles ==
  {SourcesDir \o <<"i", "n", "p", "u", "t", "1", ".", "c", "c">>,
   SourcesDir \o <<"a", ".", "h">>, SourcesDir \o <<"b", ".", "r", "c">>,
   SourcesDir \o <<"c", ".", "S">>, SourcesDir \o <<"d">>,
   SourcesDir \o <<"e", ".", "m">>, SourcesDir \o <<"f", ".", "c">>}

\* the sources lists given to targets
SourceLists ==
  {<<>>, <<<<"/", "/", "f", "o", "o", "/", "i", "n", "p", "u", "t", "1", ".", "c", "c">>>>, <<<<"/", "/", "f", "o", "o", "/", "i", "n", "p", "u", "t", "1", ".", "c", "c">>, <<"/", "/", "f", "o", "o", "/", "i", "n", "p", "u", "t", "2", ".", "c", "c">>>>,
   <<<<"/", "/", "f", "o", "o", "/", "a", ".", "h">>, <<"/", "/", "f", "o", "o", "/", "b", ".", "r", "c">>, <<"/", "/", "f", "o", "o", "/", "i", "n", "p", "u", "t", "1", ".", "c", "c">>>>,
   <<<<"/", "/", "f", "o", "o", "/", "c", ".", "S">>, <<"/", "/", "f", "o", "o", "/", "d">>, <<"/", "/", "f", "o", "o", "/", "i", "n", "p", "u", "t", "1", ".", "c", "c">>>>}

\* a target as the generator leaves it
MakeTarget(id, output_type, sources, deps, datadeps) ==
  [output_type |-> output_type, dir |-> SourcesDir,
   name |-> CASE id = 1 -> <<"b", "a", "r">> [] id = 2 -> <<"b", "a", "z">> [] OTHER -> <<"s", "h", "l", "i", "b">>,
   sources |-> sources, deps |-> deps, datadeps |-> datadeps,
   inherited_libraries |-> {}, output_extension |-> <<>>, data |-> <<>>]

\* the settings of a toolchain for a target OS
MakeSettings(os, label) ==
  [target_os |-> os, toolchain_output_subdir |-> ToolchainOutputSubdir(label),
   rule_prefix |-> IF label = DefaultToolchainLabel THEN <<>>
                   ELSE label.name \o <<"_">>]

InitClassify ==
  /\ \E target_type \in OutputTypes, dep_type \in OutputTypes,
        os \in TargetOSes, sources \in SourceLists, label \in ToolchainLabels :
       wr = [settings |-> MakeSettings(os, label),
             arena |-> [t \in Targets |->
                          MakeTarget(t, IF t = 3 THEN target_type ELSE dep_type,
                                     IF t = 1 THEN sources ELSE <<>>,
                                     <<>>, <<>>)],
             target |-> 3, dep |-> 1, before |-> NoDeps, out |-> NoDeps,
             pc |-> "classify"]
  /\ norm = NormIdle /\ reb = RebIdle /\ inv = InvIdle /\ mk = MkIdle /\ bs = BsIdle /\ tg = TgIdle /\ gen = GenIdle /\ prov = ProvIdle /\ thr = ThrIdle

\* one call of ClassifyDependency; the containers may already hold the
\* other target
Classify ==
  /\ wr.pc = "classify"
  /\ \E before \in {NoDeps,
                    [NoDeps EXCEPT !.linkable_deps = <<2>>,
                                   !.non_linkable_deps = <<2>>]} :
       wr' = [wr EXCEPT
                !.before = before,
                !.out = ClassifyDependency(wr.settings, wr.arena, wr.target,
                                           wr.dep, before),
                !.pc = "done"]
  /\ UNCHANGED <<norm, reb, inv, mk, bs, tg, gen, prov, thr>>

NextClassify == Classify

SpecClassify == InitClassify /\ [][NextClassify]_vars

----------------------------------------------------------------------------
(* NinjaBinaryTargetWriter::GetDeps *)

\* the members of a std::set<const Target*> in iteration order: ascending
\* addresses, order listing the targets by address
SetIteration(set, order) == SelectSeq(order, LAMBDA t : t \in set)

\* GetDeps: the loop over deps
RECURSIVE GetDepsNormal(_, _, _, _, _)
GetDepsNormal(settings, arena, target_, i, out) ==
  LET deps == arena[target_].deps
  IN IF i >= Len(deps) THEN out
     ELSE GetDepsNormal(settings, arena, target_, i + 1,
            IF At(deps, i) \in arena[target_].inherited_libraries THEN out
            ELSE ClassifyDependency(settings, arena, target_, At(deps, i), out))

\* GetDeps: the loop over the inherited libraries
RECURSIVE GetDepsInherited(_, _, _, _, _)
GetDepsInherited(settings, arena, target_, inherited, out) ==
  IF inherited = <<>> THEN out
  ELSE GetDepsInherited(settings, arena, target_, Tail(inherited),
         ClassifyDependency(settings, arena, target_, Head(inherited), out))

\* NinjaBinaryTargetWriter::GetDeps
GetDeps(settings, arena, target_, order) ==
  LET normal == GetDepsNormal(settings, arena, target_, 0, NoDeps)
      inherited ==
        GetDepsInherited(settings, arena, target_,
          SetIteration(arena[target_].inherited_libraries, order), normal)
  IN [inherited EXCEPT !.non_linkable_deps = @ \o arena[target_].datadeps]

\* OnResolved applied to the targets in dependency order, from target t on
RECURSIVE ResolveFrom(_, _, _, _)
ResolveFrom(output_type, deps, inherited, t) ==
  IF t \notin Targets THEN [deps |-> deps, inherited |-> inherited]
  ELSE LET deps_ == ExpandGroups(output_type, deps, deps[t])
       IN ResolveFrom(output_type, [deps EXCEPT ![t] = deps_],
            [inherited EXCEPT ![t] =
               PullDependentTargetInfo(output_type, inherited, deps_, {})],
            t + 1)

\* the sources of the three targets
SourcesOf(t) ==
  CASE t = 1 -> <<<<"/", "/", "f", "o", "o", "/", "i", "n", "p", "u", "t", "1", ".", "c", "c">>, <<"/", "/", "f", "o", "o", "/", "i", "n", "p", "u", "t", "2", ".", "c", "c">>>>
    [] t = 2 -> <<<<"/", "/", "f", "o", "o", "/", "a", ".", "h">>, <<"/", "/", "f", "o", "o", "/", "b", ".", "r", "c">>, <<"/", "/", "f", "o", "o", "/", "i", "n", "p", "u", "t", "1", ".", "c", "c">>>>
    [] OTHER -> <<<<"/", "/", "f", "o", "o", "/", "a", ".", "h">>, <<"/", "/", "f", "o", "o", "/", "i", "n", "p", "u", "t", "1", ".", "c", "c">>>>

\* the resolved targets a build file with these kinds and deps gives
ResolvedArena(output_type, deps, datadeps) ==
  LET r == ResolveFrom(output_type, deps, [t \in Targets |-> {}], 1)
  IN [t \in Targets |->
        [MakeTarget(t, output_type[t], SourcesOf(t), r.deps[t],
                    IF t = 3 THEN datadeps ELSE <<>>)
           EXCEPT !.inherited_libraries = r.inherited[t]]]

\* the orders in which the addresses of the two possible deps can fall
AddressOrders == {<<1, 2, 3>>, <<2, 1, 3>>}

DatadepsLists == {<<>>, <<1>>, <<2, 1>>}

InitGetDeps ==
  /\ \E ot \in [Targets -> OutputTypes] :
     \E ds \in {f \in [Targets -> SeqsUpTo(Targets, MaxDeps)] :
                  \A t \in Targets : f[t] \in DepsLists(t)} :
     \E dd \in DatadepsLists, os \in TargetOSes, order \in AddressOrders :
       wr = [settings |-> MakeSettings(os, DefaultToolchainLabel),
             arena |-> ResolvedArena(ot, ds, dd),
             target |-> 3, order |-> order, out |-> NoDeps, pc |-> "GetDeps"]
  /\ norm = NormIdle /\ reb = RebIdle /\ inv = InvIdle /\ mk = MkIdle /\ bs = BsIdle /\ tg = TgIdle /\ gen = GenIdle /\ prov = ProvIdle /\ thr = ThrIdle

\* one call of GetDeps for the target being written
GetDepsCall ==
  /\ wr.pc = "GetDeps"
  /\ wr' = [wr EXCEPT
              !.out = GetDeps(wr.settings, wr.arena, wr.target, wr.order),
              !.pc = "done"]
  /\ UNCHANGED <<norm, reb, inv, mk, bs, tg, gen, prov, thr>>

NextGetDeps == GetDepsCall

SpecGetDeps == InitGetDeps /\ [][NextGetDeps]_vars

----------------------------------------------------------------------------
(* NinjaBinaryTargetWriter: the text it emits *)

\* the characters of the file names written, in ascending code order
CharOrder ==
  <<".", "/", "1", "2", "_", "a", "b", "c", "d", "e", "f", "g", "h", "i",
    "j", "l", "m", "n", "o", "p", "r", "s", "t", "u", "z">>

CharCode(c) == CHOOSE i \in 1..Len(CharOrder) : CharOrder[i] = c

\* std::string operator<
RECURSIVE StringLess(_, _)
StringLess(a, b) ==
  IF b = <<>> THEN FALSE
  ELSE IF a = <<>> THEN TRUE
  ELSE IF Head(a) = Head(b) THEN StringLess(Tail(a), Tail(b))
  ELSE CharCode(Head(a)) < CharCode(Head(b))

\* the members of a std::set<OutputFile> in iteration order
RECURSIVE SortedFiles(_)
SortedFiles(set) ==
  IF set = {} THEN <<>>
  ELSE LET least == CHOOSE f \in set :
                      \A g \in set : g = f \/ StringLess(f, g)
       IN <<least>> \o SortedFiles(set \ {least})

\* a line "name = value..." with its indentation
VarLine(indent, name, value) ==
  [kind |-> "var", indent |-> indent, name |-> name, value |-> value,
   outputs |-> <<>>, rule |-> <<>>, inputs |-> <<>>, order_only |-> <<>>]

\* an empty line
BlankLine ==
  [kind |-> "blank", indent |-> 0, name |-> "", value |-> <<>>,
   outputs |-> <<>>, rule |-> <<>>, inputs |-> <<>>, order_only |-> <<>>]

\* a line "build outputs: rule inputs [|| order_only]"; order_only starts
\* with the "||" token when the tail is written
BuildLine(outputs, rule, inputs, order_only) ==
  [kind |-> "build", indent |-> 0, name |-> "", value |-> <<>>,
   outputs |-> outputs, rule |-> rule, inputs |-> inputs,
   order_only |-> order_only]

\* PathOutput::WriteFile for a source file: relative to the build directory
WriteSourceFile(file) == RebaseSourceAbsolutePath(file, DocBuildDir)

\* GetToolTypeForTarget
GetToolTypeForTarget(output_type) ==
  CASE output_type = "STATIC_LIBRARY" -> "TYPE_ALINK"
    [] output_type = "SHARED_LIBRARY" -> "TYPE_SOLINK"
    [] output_type = "EXECUTABLE" -> "TYPE_LINK"
    [] OTHER -> "TYPE_NONE"

\* Toolchain::ToolTypeToName
ToolTypeToName(tool_type) ==
  CASE tool_type = "TYPE_ALINK" -> <<"a", "l", "i", "n", "k">>
    [] tool_type = "TYPE_SOLINK" -> <<"s", "o", "l", "i", "n", "k">>
    [] tool_type = "TYPE_LINK" -> <<"l", "i", "n", "k">>
    [] OTHER -> <<>>

\* NinjaHelper::GetRuleForSourceType: empty for files that need no
\* compilation
GetRuleForSourceType(settings, type) ==
  CASE type = "SOURCE_C" -> settings.rule_prefix \o <<"c", "c">>
    [] type = "SOURCE_CC" -> settings.rule_prefix \o <<"c", "x", "x">>
    [] type = "SOURCE_M" -> settings.rule_prefix \o <<"o", "b", "j", "c">>
    [] type = "SOURCE_MM" -> settings.rule_prefix \o <<"o", "b", "j", "c", "x", "x">>
    [] type = "SOURCE_RC" -> settings.rule_prefix \o <<"r", "c">>
    [] type = "SOURCE_S" -> settings.rule_prefix \o <<"c", "c">>
    [] OTHER -> <<>>

\* "." and the extension, nothing for an empty extension
DotExtension(extension) ==
  IF extension = <<>> THEN <<>> ELSE <<".">> \o extension

\* the extension of a target's output file, with the attribute ignored
OutputExtensionDefaultOnly(target, os) ==
  IF target.output_type \in {"GROUP", "SOURCE_SET", "COPY_FILES", "CUSTOM"}
    THEN <<"s", "t", "a", "m", "p">>
  ELSE GetExtensionForOutputType(target.output_type, os)

\* the extension of a target's output file
OutputExtension(target, os) ==
  IF target.output_extension # <<>> THEN target.output_extension
  ELSE IF target.output_type \in {"GROUP", "SOURCE_SET", "COPY_FILES", "CUSTOM"}
    THEN <<"s", "t", "a", "m", "p">>
  ELSE GetExtensionForOutputType(target.output_type, os)

\* NinjaHelper::GetTargetOutputFile, relative to the build directory
GetTargetOutputFile(settings, target) ==
  LET os == settings.target_os
      prefix == IF os = "WIN" THEN <<>> ELSE <<"l", "i", "b">>
      extension == DotExtension(OutputExtension(target, os))
      type == target.output_type
  IN IF \/ type = "EXECUTABLE"
        \/ os = "MAC" /\ type \in {"SHARED_LIBRARY", "STATIC_LIBRARY"}
        \/ os = "WIN" /\ type = "SHARED_LIBRARY"
       THEN settings.toolchain_output_subdir \o target.name \o extension
     ELSE IF type = "SHARED_LIBRARY"
       THEN settings.toolchain_output_subdir \o <<"l", "i", "b", "/">> \o prefix
              \o target.name \o extension
     ELSE HelperGetTargetOutputDir(settings, target)
            \o (IF type = "STATIC_LIBRARY" THEN prefix ELSE <<>>)
            \o target.name \o extension

\* WriteCompilerVars for a target without configs
WriteCompilerVars ==
  <<VarLine(0, "defines", <<>>), VarLine(0, "includes", <<>>),
    VarLine(0, "cflags", <<>>), VarLine(0, "cflags_c", <<>>),
    VarLine(0, "cflags_cc", <<>>), VarLine(0, "cflags_objc", <<>>),
    VarLine(0, "cflags_objcc", <<>>), BlankLine>>

\* the loop of WriteSources recording the object file before it looks at
\* the compile rule
RECURSIVE WriteSourcesLoopRecordsFirst(_, _, _, _)
WriteSourcesLoopRecordsFirst(settings, target, i, acc) ==
  IF i >= Len(target.sources) THEN acc
  ELSE LET input_file == At(target.sources, i)
           input_file_type == GetSourceFileType(input_file, settings.target_os)
           command == GetRuleForSourceType(settings, input_file_type)
           output_file == GetOutputFileForSource(settings, target, input_file,
                                                 input_file_type)
       IN WriteSourcesLoopRecordsFirst(settings, target, i + 1,
            IF input_file_type = "SOURCE_UNKNOWN" THEN acc
            ELSE IF command = <<>>
              THEN [acc EXCEPT !.object_files = Append(@, output_file)]
            ELSE [lines |-> Append(acc.lines,
                              BuildLine(<<output_file>>, command,
                                        <<WriteSourceFile(input_file)>>, <<>>)),
                  object_files |-> Append(acc.object_files, output_file)])

\* the loop of WriteSources: the lines written and the object files
RECURSIVE WriteSourcesLoop(_, _, _, _)
WriteSourcesLoop(settings, target, i, acc) ==
  IF i >= Len(target.sources) THEN acc
  ELSE LET input_file == At(target.sources, i)
           input_file_type == GetSourceFileType(input_file, settings.target_os)
           command == GetRuleForSourceType(settings, input_file_type)
           output_file == GetOutputFileForSource(settings, target, input_file,
                                                 input_file_type)
       IN WriteSourcesLoop(settings, target, i + 1,
            IF input_file_type = "SOURCE_UNKNOWN" \/ command = <<>> THEN acc
            ELSE [lines |-> Append(acc.lines,
                              BuildLine(<<output_file>>, command,
                                        <<WriteSourceFile(input_file)>>, <<>>)),
                  object_files |-> Append(acc.object_files, output_file)])

\* NinjaBinaryTargetWriter::WriteSources
WriteSources(settings, target) ==
  LET loop == WriteSourcesLoop(settings, target, 0,
                               [lines |-> <<>>, object_files |-> <<>>])
  IN [loop EXCEPT !.lines = Append(@, BlankLine)]

\* the output files of a list of targets
RECURSIVE OutputFilesOf(_, _, _)
OutputFilesOf(settings, arena, list) ==
  IF list = <<>> THEN <<>>
  ELSE <<GetTargetOutputFile(settings, arena[Head(list)])>>
         \o OutputFilesOf(settings, arena, Tail(list))

\* WriteImplicitDependencies writing the tail only when there are
\* non-linkable deps
WriteImplicitDependenciesForDepsOnly(settings, arena, target, non_linkable_deps) ==
  IF non_linkable_deps # <<>>
    THEN <<<<"|", "|">>>> \o OutputFilesOf(settings, arena, non_linkable_deps)
           \o [i \in 1..Len(target.data) |-> WriteSourceFile(target.data[i])]
  ELSE <<>>

\* NinjaBinaryTargetWriter::WriteImplicitDependencies
WriteImplicitDependencies(settings, arena, target, non_linkable_deps) ==
  IF non_linkable_deps # <<>> \/ target.data # <<>>
    THEN <<<<"|", "|">>>> \o OutputFilesOf(settings, arena, non_linkable_deps)
           \o [i \in 1..Len(target.data) |-> WriteSourceFile(target.data[i])]
  ELSE <<>>

\* the internal output file of WriteLinkerStuff
InternalOutputFile(settings, target, external_output_file) ==
  IF target.output_type = "SHARED_LIBRARY" /\ settings.target_os = "WIN"
    THEN settings.toolchain_output_subdir \o target.name \o <<".", "d", "l", "l">>
  ELSE external_output_file

\* the outputs WriteLinkCommand names
LinkOutputs(external_output_file, internal_output_file) ==
  IF external_output_file # internal_output_file
    THEN <<internal_output_file, external_output_file>>
  ELSE <<internal_output_file>>

\* NinjaBinaryTargetWriter::WriteLinkCommand
WriteLinkCommand(settings, arena, target_, tool_type, external_output_file, internal_output_file, object_files, deps) ==
  BuildLine(LinkOutputs(external_output_file, internal_output_file),
            settings.rule_prefix \o ToolTypeToName(tool_type),
            object_files \o SortedFiles(deps.extra_object_files)
              \o OutputFilesOf(settings, arena, deps.linkable_deps),
            WriteImplicitDependencies(settings, arena, arena[target_],
                                      deps.non_linkable_deps))

\* NinjaBinaryTargetWriter::WriteLinkerStuff for a target without configs
\* and libraries
WriteLinkerStuff(settings, arena, target_, tool_type, object_files, deps) ==
  LET target == arena[target_]
      win == settings.target_os = "WIN"
      shared == target.output_type = "SHARED_LIBRARY"
      windows_manifest == HelperGetTargetOutputDir(settings, target)
                            \o target.name \o <<".", "i", "n", "t", "e", "r", "m", "e", "d", "i", "a", "t", "e", ".", "m", "a", "n", "i", "f", "e", "s", "t">>
      external_output_file == GetTargetOutputFile(settings, target)
      internal_output_file ==
        InternalOutputFile(settings, target, external_output_file)
  IN (IF win THEN <<VarLine(0, "manifests", <<windows_manifest>>)>> ELSE <<>>)
     \o <<VarLine(0, "ldflags",
                  IF win THEN <<<<"/", "M", "A", "N", "I", "F", "E", "S", "T">>,
                                <<"/", "M", "a", "n", "i", "f", "e", "s", "t", "F", "i", "l", "e", ":">> \o windows_manifest>>
                  ELSE <<>>),
          VarLine(0, "libs", <<>>),
          WriteLinkCommand(settings, arena, target_, tool_type,
                           external_output_file, internal_output_file,
                           object_files, deps)>>
     \o (IF shared
           THEN <<VarLine(2, "soname", <<FindFilename(internal_output_file)>>),
                  VarLine(2, "lib", <<internal_output_file>>)>>
                \o (IF win
                      THEN <<VarLine(2, "dll", <<internal_output_file>>),
                             VarLine(2, "implibflag",
                                     <<<<"/", "I", "M", "P", "L", "I", "B", ":">> \o external_output_file>>)>>
                    ELSE <<>>)
         ELSE <<>>)
     \o (IF shared /\ settings.target_os = "MAC"
           THEN <<VarLine(2, "postbuilds", <<>>)>>
         ELSE <<BlankLine>>)

\* NinjaBinaryTargetWriter::WriteSourceSetStamp
WriteSourceSetStamp(settings, arena, target_, object_files, deps) ==
  <<BuildLine(<<GetTargetOutputFile(settings, arena[target_])>>,
              settings.rule_prefix \o <<"s", "t", "a", "m", "p">>,
              object_files,
              WriteImplicitDependencies(settings, arena, arena[target_],
                                        deps.non_linkable_deps))>>

\* the branch of Run after WriteSources
LinkSection(output_type) ==
  IF output_type = "SOURCE_SET" THEN "WriteSourceSetStamp"
  ELSE "WriteLinkerStuff"

\* the kinds the deps of the written target have
WriterDepTypes == {"STATIC_LIBRARY", "SHARED_LIBRARY", "SOURCE_SET"}

\* the deps lists of target 2 and of target 3
WriterDepsLists(t) ==
  CASE t = 1 -> {<<>>}
    [] t = 2 -> {<<>>, <<1>>}
    [] OTHER -> {<<>>, <<1>>, <<2>>, <<1, 2>>, <<2, 1>>}

WriterOutputExtensions == {<<>>, <<"d", "l", "l">>}

InitWriter ==
  /\ \E ot \in {f \in [Targets -> OutputTypes] :
                  f[1] \in WriterDepTypes /\ f[2] \in WriterDepTypes} :
     \E ds \in {f \in [Targets -> SeqsUpTo(Targets, 2)] :
                  \A t \in Targets : f[t] \in WriterDepsLists(t)} :
     \E dd \in {<<>>, <<1>>}, os \in TargetOSes, order \in AddressOrders,
        label \in ToolchainLabels, extension \in WriterOutputExtensions :
       wr = [settings |-> MakeSettings(os, label),
             arena |-> [ResolvedArena(ot, ds, dd) EXCEPT
                          ![3].output_extension = extension],
             target |-> 3, order |-> order,
             tool_type_ |-> GetToolTypeForTarget(ot[3]),
             text |-> <<>>, object_files |-> <<>>, deps |-> NoDeps,
             dcheck_failed |-> FALSE, previous |-> <<>>, runs |-> 1,
             pc |-> "WriteCompilerVars"]
  /\ norm = NormIdle /\ reb = RebIdle /\ inv = InvIdle /\ mk = MkIdle /\ bs = BsIdle /\ tg = TgIdle /\ gen = GenIdle /\ prov = ProvIdle /\ thr = ThrIdle

RunWriteCompilerVars ==
  /\ wr.pc = "WriteCompilerVars"
  /\ wr' = [wr EXCEPT !.text = @ \o WriteCompilerVars, !.pc = "WriteSources"]
  /\ UNCHANGED <<norm, reb, inv, mk, bs, tg, gen, prov, thr>>

RunWriteSources ==
  /\ wr.pc = "WriteSources"
  /\ LET w == WriteSources(wr.settings, wr.arena[wr.target])
     IN wr' = [wr EXCEPT
                 !.text = @ \o w.lines,
                 !.object_files = w.object_files,
                 !.pc = LinkSection(wr.arena[wr.target].output_type)]
  /\ UNCHANGED <<norm, reb, inv, mk, bs, tg, gen, prov, thr>>

RunWriteSourceSetStamp ==
  /\ wr.pc = "WriteSourceSetStamp"
  /\ LET deps == GetDeps(wr.settings, wr.arena, wr.target, wr.order)
     IN wr' = [wr EXCEPT
                 !.deps = deps,
                 !.dcheck_failed = deps.extra_object_files # {},
                 !.text = @ \o WriteSourceSetStamp(wr.settings, wr.arena,
                                 wr.target, wr.object_files, deps),
                 !.pc = "done"]
  /\ UNCHANGED <<norm, reb, inv, mk, bs, tg, gen, prov, thr>>

RunWriteLinkerStuff ==
  /\ wr.pc = "WriteLinkerStuff"
  /\ LET deps == GetDeps(wr.settings, wr.arena, wr.target, wr.order)
     IN wr' = [wr EXCEPT
                 !.deps = deps,
                 !.text = @ \o WriteLinkerStuff(wr.settings, wr.arena,
                                 wr.target, wr.tool_type_, wr.object_files,
                                 deps),
                 !.pc = "done"]
  /\ UNCHANGED <<norm, reb, inv, mk, bs, tg, gen, prov, thr>>

\* a second writer is run on the same targets, settings and toolchain; the
\* targets may lie at other addresses
RunAgain ==
  /\ wr.pc = "done"
  /\ wr.runs = 1
  /\ \E order \in AddressOrders :
       wr' = [wr EXCEPT !.previous = wr.text, !.text = <<>>,
                        !.object_files = <<>>, !.deps = NoDeps,
                        !.order = order, !.runs = 2,
                        !.pc = "WriteCompilerVars"]
  /\ UNCHANGED <<norm, reb, inv, mk, bs, tg, gen, prov, thr>>

NextWriter ==
  \/ RunWriteCompilerVars
  \/ RunWriteSources
  \/ RunWriteSourceSetStamp
  \/ RunWriteLinkerStuff
  \/ RunAgain

SpecWriter == InitWriter /\ [][NextWriter]_vars

----------------------------------------------------------------------------
(* The output file of a target: its extension *)

\* the values of output_extension: unset or set to "", and the ones the
\* tests and a Windows build file set
OutputExtensions ==
  WriterOutputExtensions \cup {<<"s", "o", ".", "6">>, <<"a">>}

\* a target of some kind, with or without output_extension, under a
\* toolchain for a target OS
InitExtension ==
  /\ \E output_type \in OutputTypes, os \in TargetOSes,
        output_extension \in OutputExtensions, label \in ToolchainLabels,
        id \in Targets :
       wr = [settings |-> MakeSettings(os, label),
             target |-> [MakeTarget(id, output_type, <<>>, <<>>, <<>>)
                           EXCEPT !.output_extension = output_extension],
             file |-> <<>>, pc |-> "extension"]
  /\ norm = NormIdle /\ reb = RebIdle /\ inv = InvIdle /\ mk = MkIdle /\ bs = BsIdle /\ tg = TgIdle /\ gen = GenIdle /\ prov = ProvIdle /\ thr = ThrIdle

\* the writer asks for the target's output file
TargetOutputFile ==
  /\ wr.pc = "extension"
  /\ wr' = [wr EXCEPT !.file = GetTargetOutputFile(wr.settings, wr.target),
                      !.pc = "done"]
  /\ UNCHANGED <<norm, reb, inv, mk, bs, tg, gen, prov, thr>>

NextExtension == TargetOutputFile

SpecExtension == InitExtension /\ [][NextExtension]_vars

----------------------------------------------------------------------------
(* GetSourceFileType applied to a file name *)

\* the extensions a file name can carry: the nine the code knows, the same
\* letters in the other case, and others
FileExtensions ==
  {<<"c", "c">>, <<"c", "p", "p">>, <<"c", "x", "x">>, <<"c">>, <<"h">>,
   <<"m">>, <<"m", "m">>, <<"r", "c">>, <<"S">>,
   <<"C", "C">>, <<"C", "p", "p">>, <<"C">>, <<"H">>, <<"M">>, <<"R", "C">>,
   <<"s">>, <<"o">>, <<"c", "c", "c">>, <<"h", "h">>, <<>>}

\* the directories of the file names
FileDirs == {<<>>, <<"/", "/", "f", "o", "o", "/">>, <<"/", "/", "d", ".", "c", "c", "/">>}

\* the names before the extension
FileStems == {<<"a">>, <<"a", ".", "h">>}

\* a file name with an extension after a dot, with a dot and nothing after it,
\* or without a dot in its last component
InitFileType ==
  /\ \E dir \in FileDirs, stem \in FileStems, extension \in FileExtensions,
        dotted \in BOOLEAN, os \in TargetOSes :
       /\ extension # <<>> => dotted
       /\ ~dotted => stem = <<"a">>
       /\ wr = [file |-> dir \o stem \o (IF dotted THEN <<".">> ELSE <<>>)
                           \o extension,
                extension |-> extension, os |-> os, type |-> "",
                pc |-> "file_type"]
  /\ norm = NormIdle /\ reb = RebIdle /\ inv = InvIdle /\ mk = MkIdle /\ bs = BsIdle /\ tg = TgIdle /\ gen = GenIdle /\ prov = ProvIdle /\ thr = ThrIdle

\* the writer asks for the type of a source file
SourceFileType ==
  /\ wr.pc = "file_type"
  /\ wr' = [wr EXCEPT !.type = GetSourceFileType(wr.file, wr.os),
                      !.pc = "done"]
  /\ UNCHANGED <<norm, reb, inv, mk, bs, tg, gen, prov, thr>>

NextFileType == SourceFileType

SpecFileType == InitFileType /\ [][NextFileType]_vars

----------------------------------------------------------------------------
(* GenerateTarget called from several worker threads *)

Threads == 1..MaxThreads

\* the addresses new Target can return
Addresses == 1..MaxThreads

\* a heap cell no thread has allocated
FreeCell == [owner |-> 0, fields |-> NewTarget]

\* new Target(...) returning any address that is already in use
AllocateShared(heap) == Addresses

\* new Target(...): an address not in use
Allocate(heap) == {a \in Addresses : heap[a].owner = 0}

\* a scope whose variables all hold a value of the right type, but one
ScopeWith(name, v) == [f \in TargetFields |-> IF f = name THEN v ELSE "ok"]

\* the scopes of the build files the calls come from
ThreadScopes ==
  {ScopeWith("data", "ok"), ScopeWith("data", "wrong_type"),
   ScopeWith("deps", "absent")}

\* the argument lists and function names of the calls
ThreadArgLists == {<<>>, <<"STRING">>, <<"LIST">>}

ThreadFunctionNames == {"executable", "source_set", "component"}

\* the generator of a thread: its target_ and its *err_
GeneratorOf(t) ==
  [NewGenerator EXCEPT !.target = thr.heap[thr.threads[t].target].fields,
                       !.err = thr.threads[t].err]

\* the generator's state written back after a step
AfterStep(t, g, pc) ==
  [thr EXCEPT !.heap[thr.threads[t].target].fields = g.target,
              !.threads[t].err = g.err,
              !.threads[t].pc = pc]

NewThread == [pc |-> "GenerateTarget", scope |-> ScopeWith("data", "ok"),
              target |-> 0, err |-> ""]

InitThreads ==
  /\ thr = [threads |-> [t \in Threads |-> NewThread],
            heap |-> [a \in Addresses |-> FreeCell],
            sink |-> <<>>]
  /\ \E cb \in {"null", "original"} :
       bs = [original |-> [DefaultBuildSettings EXCEPT
                             !.item_defined_callback = cb],
             copy |-> NoBuildSettings, calls |-> 0]
  /\ norm = NormIdle /\ reb = RebIdle /\ inv = InvIdle /\ mk = MkIdle /\ tg = TgIdle /\ gen = GenIdle /\ prov = ProvIdle /\ wr = WrIdle

\* GenerateTarget up to the dispatch on output_type, on thread t
ThreadGenerateTarget(t) ==
  /\ thr.threads[t].pc = "GenerateTarget"
  /\ \E args \in ThreadArgLists, output_type \in ThreadFunctionNames,
        scope \in ThreadScopes :
       IF Len(args) # 1 \/ args[1] # "STRING"
         THEN thr' = [thr EXCEPT !.threads[t].err = "args",
                                 !.threads[t].pc = "done"]
       ELSE \E a \in Allocate(thr.heap) :
              thr' = [thr EXCEPT
                        !.heap[a] = [owner |-> t, fields |-> NewTarget],
                        !.threads[t] =
                          [pc |-> IF output_type \in KnownOutputTypes
                                    THEN "FillDependentConfigs" ELSE "return",
                           scope |-> scope, target |-> a,
                           err |-> IF output_type \in KnownOutputTypes
                                     THEN "" ELSE "output_type"]]
  /\ UNCHANGED <<norm, reb, inv, mk, bs, tg, gen, prov, wr>>

ThreadFillDependentConfigs(t) ==
  /\ thr.threads[t].pc = "FillDependentConfigs"
  /\ LET scope == thr.threads[t].scope
     IN thr' = AfterStep(t, FillDependentConfigsOf(GeneratorOf(t),
                              scope["all_dependent_configs"],
                              scope["direct_dependent_configs"]),
                         "FillData")
  /\ UNCHANGED <<norm, reb, inv, mk, bs, tg, gen, prov, wr>>

ThreadFillData(t) ==
  /\ thr.threads[t].pc = "FillData"
  /\ thr' = AfterStep(t, FillDataOf(GeneratorOf(t),
                                    thr.threads[t].scope["data"]),
                      "FillDependencies")
  /\ UNCHANGED <<norm, reb, inv, mk, bs, tg, gen, prov, wr>>

ThreadFillDependencies(t) ==
  /\ thr.threads[t].pc = "FillDependencies"
  /\ LET scope == thr.threads[t].scope
     IN thr' = AfterStep(t, FillDependenciesOf(GeneratorOf(t),
                              scope["deps"], scope["datadeps"],
                              scope["forward_dependent_configs_from"],
                              scope["hard_dep"]),
                         "FillGypFile")
  /\ UNCHANGED <<norm, reb, inv, mk, bs, tg, gen, prov, wr>>

ThreadFillGypFile(t) ==
  /\ thr.threads[t].pc = "FillGypFile"
  /\ thr' = AfterStep(t, FillGypFileOf(GeneratorOf(t),
                                       thr.threads[t].scope["gyp_file"]),
                      "DoRun")
  /\ UNCHANGED <<norm, reb, inv, mk, bs, tg, gen, prov, wr>>

ThreadDoRun(t) ==
  /\ thr.threads[t].pc = "DoRun"
  /\ thr' = AfterStep(t, DoRunOf(GeneratorOf(t),
                                 thr.threads[t].scope["output_type"]),
                      "return")
  /\ UNCHANGED <<norm, reb, inv, mk, bs, tg, gen, prov, wr>>

\* the last statement of GenerateTarget on thread t: the target goes to
\* ItemDefined, or the scoped_ptr deletes it when the function returns
ThreadReturn(t) ==
  /\ thr.threads[t].pc = "return"
  /\ LET a == thr.threads[t].target
         items == HandOver(thr.threads[t].err, a, <<>>)
         sink == ItemDefined(bs.original, items, thr.sink)
     IN thr' = [thr EXCEPT
                  !.sink = sink,
                  !.heap[a] = IF sink = thr.sink THEN FreeCell ELSE @,
                  !.threads[t].target = IF sink = thr.sink THEN 0 ELSE @,
                  !.threads[t].pc = "done"]
  /\ UNCHANGED <<norm, reb, inv, mk, bs, tg, gen, prov, wr>>

NextThreads ==
  \E t \in Threads :
    \/ ThreadGenerateTarget(t)
    \/ ThreadFillDependentConfigs(t)
    \/ ThreadFillData(t)
    \/ ThreadFillDependencies(t)
    \/ ThreadFillGypFile(t)
    \/ ThreadDoRun(t)
    \/ ThreadReturn(t)

SpecThreads == InitThreads /\ [][NextThreads]_vars

----------------------------------------------------------------------------
(* TargetGenerator: the fill steps over the values of a scope *)

\* a Value of the scope; type NONE stands for the null pointer GetValue
\* returns when the variable is not set
MakeValue(type, string, boolean, list) ==
  [type |-> type, string |-> string, boolean |-> boolean, list |-> list]

NoValue == MakeValue("NONE", <<>>, FALSE, <<>>)
StringValueOf(string) == MakeValue("STRING", string, FALSE, <<>>)
BooleanValueOf(boolean) == MakeValue("BOOLEAN", <<>>, boolean, <<>>)
IntegerValue == MakeValue("INTEGER", <<>>, FALSE, <<>>)
ListValueOf(list) == MakeValue("LIST", <<>>, FALSE, list)

\* Value::VerifyTypeIs
VerifyTypeIs(value, type) == value.type = type

\* SourceDir::ResolveRelativeFile: a source-absolute string is taken as it
\* is, anything else is appended to the directory and normalized
ResolveRelativeFile(current_dir, p) ==
  IF IsSourceAbsolute(p) THEN p ELSE NormalizePath(current_dir \o p)

\* ExtractListOfRelativeFiles: the destination holds the entries converted
\* before the first one that is not a string
RECURSIVE ExtractLoop(_, _, _, _)
ExtractLoop(list, current_dir, i, dest) ==
  IF i > Len(list) THEN [ok |-> TRUE, dest |-> dest]
  ELSE IF ~VerifyTypeIs(list[i], "STRING") THEN [ok |-> FALSE, dest |-> dest]
  ELSE ExtractLoop(list, current_dir, i + 1,
                   Append(dest, ResolveRelativeFile(current_dir, list[i].string)))

ExtractListOfRelativeFiles(value, current_dir) ==
  IF ~VerifyTypeIs(value, "LIST") THEN [ok |-> FALSE, dest |-> <<>>]
  ELSE ExtractLoop(value.list, current_dir, 1, <<>>)

\* EnsureStringIsInOutputDir: std::string::compare over the first
\* dir_str.length() - 1 characters, clamped to the length of each string;
\* for an empty dir_str the size_t length wraps and the whole strings are
\* compared
EnsureStringIsInOutputDir(dir_str, str) ==
  IF Len(dir_str) = 0 THEN str = dir_str
  ELSE LET n == Len(dir_str) - 1
       IN Substr(str, 0, Min(n, Len(str))) = Substr(dir_str, 0, n)

\* the fields of a target the fill steps below write
NewFilledTarget ==
  [sources |-> <<>>, source_prereqs |-> <<>>, data |-> <<>>,
   outputs |-> <<>>, gyp_file |-> <<>>, hard_dep |-> FALSE,
   external |-> FALSE]

\* *err_ = Err(...) in a fill step
FillFail(g) == [g EXCEPT !.err = TRUE, !.errors = @ + 1]

\* the shape of FillSources, FillSourcePrereqs and FillData, swapping the
\* extracted list in whether or not the extraction succeeded
FillFileListUnchecked(g, field, value) ==
  IF VerifyTypeIs(value, "NONE") THEN g
  ELSE LET r == ExtractListOfRelativeFiles(value, g.current_dir)
       IN IF ~r.ok THEN [FillFail(g) EXCEPT !.target[field] = r.dest]
          ELSE [g EXCEPT !.target[field] = r.dest]

\* the shape of FillSources, FillSourcePrereqs and FillData
FillFileList(g, field, value) ==
  IF VerifyTypeIs(value, "NONE") THEN g
  ELSE LET r == ExtractListOfRelativeFiles(value, g.current_dir)
       IN IF ~r.ok THEN FillFail(g)
          ELSE [g EXCEPT !.target[field] = r.dest]

\* the loop of FillOutputs over the extracted outputs
RECURSIVE OutputsInOutputDir(_, _, _)
OutputsInOutputDir(build_dir, outputs, i) ==
  IF i >= Len(outputs) THEN TRUE
  ELSE IF ~EnsureStringIsInOutputDir(build_dir, At(outputs, i)) THEN FALSE
  ELSE OutputsInOutputDir(build_dir, outputs, i + 1)

\* TargetGenerator::FillOutputs
FillOutputsValue(g, value) ==
  IF VerifyTypeIs(value, "NONE") THEN g
  ELSE LET r == ExtractListOfRelativeFiles(value, g.current_dir)
       IN IF ~r.ok THEN FillFail(g)
          ELSE IF ~OutputsInOutputDir(g.build_dir, r.dest, 0) THEN FillFail(g)
          ELSE [g EXCEPT !.target.outputs = r.dest]

\* TargetGenerator::FillGypFile
FillGypFileValue(g, value) ==
  IF VerifyTypeIs(value, "NONE") THEN g
  ELSE IF ~VerifyTypeIs(value, "STRING") THEN FillFail(g)
  ELSE [g EXCEPT !.target.gyp_file =
                   ResolveRelativeFile(g.current_dir, value.string)]

\* the shape of FillHardDep and FillExternal
FillBoolean(g, field, value) ==
  IF VerifyTypeIs(value, "NONE") THEN g
  ELSE IF ~VerifyTypeIs(value, "BOOLEAN") THEN FillFail(g)
  ELSE [g EXCEPT !.target[field] = value.boolean]

\* the strings a build file lists as files
FileStrings ==
  {<<"/", "/", "o", "u", "t", "/", "x">>,
   <<"/", "/", "o", "u", "t", "/", "D", "e", "b", "u", "g", "/", "x">>,
   <<"/", "/", "o", "u", "t", "p", "u", "t", "/", "x">>,
   <<"/", "/", "s", "r", "c", "/", "x">>,
   <<"x">>}

\* the values a list-of-files variable can hold
FileListValues ==
  {NoValue, IntegerValue, StringValueOf(<<"x">>), ListValueOf(<<>>)}
  \cup {ListValueOf(<<StringValueOf(s)>>) : s \in FileStrings}
  \cup {ListValueOf(<<StringValueOf(<<"x">>), e>>) :
          e \in {IntegerValue, StringValueOf(<<"/", "/", "o", "u", "t", "/", "x">>)}}

\* the values a string or boolean variable can hold
ScalarValues ==
  {NoValue, IntegerValue, StringValueOf(<<"x", ".", "g", "y", "p">>),
   BooleanValueOf(TRUE)}

FillBuildDirs ==
  {<<"/", "/", "o", "u", "t", "/">>, DocBuildDir}

InitFill ==
  /\ \E build_dir \in FillBuildDirs :
       gen = [target |-> NewFilledTarget, err |-> FALSE, errors |-> 0,
              calls |-> 0, last |-> [step |-> "", value |-> NoValue],
              build_dir |-> build_dir, current_dir |-> ScopeSourceDir,
              pc |-> "fill"]
  /\ norm = NormIdle /\ reb = RebIdle /\ inv = InvIdle /\ mk = MkIdle /\ bs = BsIdle /\ tg = TgIdle /\ prov = ProvIdle /\ wr = WrIdle /\ thr = ThrIdle

\* a fill step returned
Called(g, step, value) ==
  [g EXCEPT !.calls = @ + 1, !.last = [step |-> step, value |-> value]]

FillSources ==
  /\ gen.pc = "fill" /\ gen.calls < MaxFillCalls
  /\ \E value \in FileListValues :
       gen' = Called(FillFileList(gen, "sources", value), "FillSources", value)
  /\ UNCHANGED <<norm, reb, inv, mk, bs, tg, prov, wr, thr>>

FillSourcePrereqs ==
  /\ gen.pc = "fill" /\ gen.calls < MaxFillCalls
  /\ \E value \in FileListValues :
       gen' = Called(FillFileList(gen, "source_prereqs", value),
                     "FillSourcePrereqs", value)
  /\ UNCHANGED <<norm, reb, inv, mk, bs, tg, prov, wr, thr>>

FillDataFiles ==
  /\ gen.pc = "fill" /\ gen.calls < MaxFillCalls
  /\ \E value \in FileListValues :
       gen' = Called(FillFileList(gen, "data", value), "FillData", value)
  /\ UNCHANGED <<norm, reb, inv, mk, bs, tg, prov, wr, thr>>

FillOutputs ==
  /\ gen.pc = "fill" /\ gen.calls < MaxFillCalls
  /\ \E value \in FileListValues :
       gen' = Called(FillOutputsValue(gen, value), "FillOutputs", value)
  /\ UNCHANGED <<norm, reb, inv, mk, bs, tg, prov, wr, thr>>

FillGypFileString ==
  /\ gen.pc = "fill" /\ gen.calls < MaxFillCalls
  /\ \E value \in ScalarValues :
       gen' = Called(FillGypFileValue(gen, value), "FillGypFile", value)
  /\ UNCHANGED <<norm, reb, inv, mk, bs, tg, prov, wr, thr>>

FillHardDepBoolean ==
  /\ gen.pc = "fill" /\ gen.calls < MaxFillCalls
  /\ \E value \in ScalarValues :
       gen' = Called(FillBoolean(gen, "hard_dep", value), "FillHardDep", value)
  /\ UNCHANGED <<norm, reb, inv, mk, bs, tg, prov, wr, thr>>

FillExternal ==
  /\ gen.pc = "fill" /\ gen.calls < MaxFillCalls
  /\ \E value \in ScalarValues :
       gen' = Called(FillBoolean(gen, "external", value), "FillExternal", value)
  /\ UNCHANGED <<norm, reb, inv, mk, bs, tg, prov, wr, thr>>

NextFill ==
  \/ FillSources
  \/ FillSourcePrereqs
  \/ FillDataFiles
  \/ FillOutputs
  \/ FillGypFileString
  \/ FillHardDepBoolean
  \/ FillExternal

SpecFill == InitFill /\ [][NextFill]_vars

----------------------------------------------------------------------------
(* WriteSources of a target, and the expansion of the target as a source *)
(* set under a target that depends on it                                 *)

InitSources ==
  /\ \E sources \in SeqsUpTo(SourceFiles, MaxSources), os \in TargetOSes,
        label \in ToolchainLabels,
        output_type \in {"SOURCE_SET", "EXECUTABLE"} :
       wr = [settings |-> MakeSettings(os, label),
             arena |-> [t \in Targets |->
                          MakeTarget(t, IF t = 1 THEN output_type
                                        ELSE "EXECUTABLE",
                                     IF t = 1 THEN sources ELSE <<>>,
                                     IF t = 3 THEN <<1>> ELSE <<>>, <<>>)],
             target |-> 1, text |-> <<>>, object_files |-> <<>>,
             out |-> NoDeps, pc |-> "WriteSources"]
  /\ norm = NormIdle /\ reb = RebIdle /\ inv = InvIdle /\ mk = MkIdle /\ bs = BsIdle /\ tg = TgIdle /\ gen = GenIdle /\ prov = ProvIdle /\ thr = ThrIdle

\* the writer of target 1 writes its compile lines
SourcesWriteSources ==
  /\ wr.pc = "WriteSources"
  /\ LET w == WriteSources(wr.settings, wr.arena[wr.target])
     IN wr' = [wr EXCEPT !.text = w.lines, !.object_files = w.object_files,
                         !.pc = "ClassifyDependency"]
  /\ UNCHANGED <<norm, reb, inv, mk, bs, tg, gen, prov, thr>>

\* the writer of target 3, which depends on target 1, classifies it
SourcesClassifyDependency ==
  /\ wr.pc = "ClassifyDependency"
  /\ wr' = [wr EXCEPT
              !.out = ClassifyDependency(wr.settings, wr.arena, 3, wr.target,
                                         NoDeps),
              !.pc = "done"]
  /\ UNCHANGED <<norm, reb, inv, mk, bs, tg, gen, prov, thr>>

NextSources == SourcesWriteSources \/ SourcesClassifyDependency

SpecSources == InitSources /\ [][NextSources]_vars

----------------------------------------------------------------------------
(* The build statement of a target with non-linkable deps and data files *)

\* the files a target lists as data
DataFiles == {SourcesDir \o <<"d">>, SourcesDir \o <<"a", ".", "h">>}

\* target 3 with data files, and the non-linkable deps GetDeps found for
\* it among a group and a static library
InitImplicit ==
  /\ \E non_linkable_deps \in SeqsUpTo({1, 2}, MaxDeps),
        data \in SeqsUpTo(DataFiles, MaxDeps), os \in TargetOSes,
        output_type \in {"SOURCE_SET", "STATIC_LIBRARY"} :
       wr = [settings |-> MakeSettings(os, DefaultToolchainLabel),
             arena |-> [t \in Targets |->
                          [MakeTarget(t, CASE t = 1 -> "GROUP"
                                           [] t = 2 -> "STATIC_LIBRARY"
                                           [] OTHER -> output_type,
                                      <<>>, <<>>, <<>>)
                             EXCEPT !.data = IF t = 3 THEN data ELSE <<>>]],
             target |-> 3,
             deps |-> [NoDeps EXCEPT !.non_linkable_deps = non_linkable_deps],
             text |-> <<>>, pc |-> LinkSection(output_type)]
  /\ norm = NormIdle /\ reb = RebIdle /\ inv = InvIdle /\ mk = MkIdle /\ bs = BsIdle /\ tg = TgIdle /\ gen = GenIdle /\ prov = ProvIdle /\ thr = ThrIdle

\* the stamp statement of a source set
ImplicitWriteSourceSetStamp ==
  /\ wr.pc = "WriteSourceSetStamp"
  /\ wr' = [wr EXCEPT
              !.text = WriteSourceSetStamp(wr.settings, wr.arena, wr.target,
                                           <<>>, wr.deps),
              !.pc = "done"]
  /\ UNCHANGED <<norm, reb, inv, mk, bs, tg, gen, prov, thr>>

\* the link statement of any other target
ImplicitWriteLinkCommand ==
  /\ wr.pc = "WriteLinkerStuff"
  /\ LET target == wr.arena[wr.target]
         external_output_file == GetTargetOutputFile(wr.settings, target)
     IN wr' = [wr EXCEPT
                 !.text = <<WriteLinkCommand(wr.settings, wr.arena, wr.target,
                              GetToolTypeForTarget(target.output_type),
                              external_output_file,
                              InternalOutputFile(wr.settings, target,
                                                 external_output_file),
                              <<>>, wr.deps)>>,
                 !.pc = "done"]
  /\ UNCHANGED <<norm, reb, inv, mk, bs, tg, gen, prov, thr>>

NextImplicit == ImplicitWriteSourceSetStamp \/ ImplicitWriteLinkCommand

SpecImplicit == InitImplicit /\ [][NextImplicit]_vars

----------------------------------------------------------------------------
(* ItemDefined on a BuildSettings and on its copy *)

\* the original of a dependent setup, the item-defined callbacks that have
\* run so far (by the object that installed them, each with the objects
\* whose ItemDefined reached it) and the ItemDefined calls made on each
InitDefinedItems ==
  /\ bs = [original |-> DefaultBuildSettings, copy |-> NoBuildSettings,
           calls |-> 0,
           delivered |-> [o \in BuildSettingsIds |-> <<>>],
           defined |-> [o \in BuildSettingsIds |-> 0]]
  /\ norm = NormIdle /\ reb = RebIdle /\ inv = InvIdle /\ mk = MkIdle /\ tg = TgIdle /\ gen = GenIdle /\ prov = ProvIdle /\ wr = WrIdle /\ thr = ThrIdle

\* BuildSettings::ItemDefined called on the live object o
BuildSettingsItemDefined ==
  \E o \in BuildSettingsIds :
    LET cb == bs[o].item_defined_callback
        q == IF cb = "null" THEN o ELSE cb
    IN /\ bs.calls < MaxCalls
       /\ bs[o].live
       /\ bs' = [bs EXCEPT !.delivered[q] = ItemDefined(bs[o], <<o>>, @),
                           !.defined[o] = @ + 1,
                           !.calls = @ + 1]
       /\ UNCHANGED <<norm, reb, inv, mk, tg, gen, prov, wr, thr>>

NextDefinedItems ==
  \/ SetRootPath
  \/ SetSecondarySourcePath
  \/ SetBuildDir
  \/ set_python_path
  \/ set_build_config_file
  \/ build_args
  \/ set_item_defined_callback
  \/ CopyConstruct
  \/ BuildSettingsItemDefined

SpecDefinedItems == InitDefinedItems /\ [][NextDefinedItems]_vars

----------------------------------------------------------------------------

----------------------------------------------------------------------------
(* Properties *)

\* C1: normalizing the result of NormalizePath again leaves it unchanged.
NormalizeIdempotent ==
  norm.pc = "done" => NormalizePath(norm.s.pathbuf) = norm.s.pathbuf

\* a run that removed or rewrote something has finished
NormalizeChangedWitness ==
  /\ norm.pc = "done"
  /\ norm.s.pathbuf # norm.input
  /\ norm.s.pathbuf # <<>>

\* C4: the three documented results for ".." past the root:
\* "//a/b/../../c" becomes "//c", "a/b/../../.." becomes "../" and
\* "/a/../../b" becomes "/b".
NormalizeDocumentedResults ==
  norm.pc = "done" =>
    /\ norm.input = DocSourcePath => norm.s.pathbuf = <<"/", "/", "c">>
    /\ norm.input = DocRelativePath => norm.s.pathbuf = <<".", ".", "/">>
    /\ norm.input = DocSystemPath => norm.s.pathbuf = <<"/", "b">>

\* C4 as the code has it: "a/b/../../.." ends in a ".." that no separator
\* follows, so it becomes ".."; the other two results are as documented.
NormalizeDocumentedResultsAmended ==
  norm.pc = "done" =>
    /\ norm.input = DocSourcePath => norm.s.pathbuf = <<"/", "/", "c">>
    /\ norm.input = DocRelativePath => norm.s.pathbuf = <<".", ".">>
    /\ norm.input = DocSystemPath => norm.s.pathbuf = <<"/", "b">>

NormalizeDocumentedWitness ==
  norm.pc = "done" /\ norm.input = DocRelativePath

\* what the loop has written so far
Output(s) == SubSeq(s.pathbuf, 1, s.dest_i)

\* the loop is at a ".." segment of the input
MeetsDotDot ==
  /\ norm.pc = "loop"
  /\ norm.s.src_i + 1 < Len(norm.input)
  /\ At(norm.input, norm.s.src_i) = "."
  /\ At(norm.input, norm.s.src_i + 1) = "."
  /\ norm.s.src_i = 0 \/ IsSlash(At(norm.input, norm.s.src_i - 1))
  /\ norm.s.src_i + 2 = Len(norm.input) \/ IsSlash(At(norm.input, norm.s.src_i + 2))

DotDotFollowedBySeparator ==
  /\ norm.s.src_i + 2 < Len(norm.input)
  /\ IsSlash(At(norm.input, norm.s.src_i + 2))

\* nothing has been written after the anchor or the last floor
CollapsedToEmpty == norm.s.dest_i = norm.s.top_index

\* a ".." met in a relative path that has collapsed to empty is written
\* out, with "/" iff a separator followed it, and becomes the new floor
KeepsDotDotStep ==
  (MeetsDotDot /\ CollapsedToEmpty /\ norm.s.is_relative) =>
    /\ Output(norm'.s) =
         Output(norm.s) \o <<".", ".">>
           \o (IF DotDotFollowedBySeparator THEN <<"/">> ELSE <<>>)
    /\ norm'.s.top_index = norm'.s.dest_i

\* a ".." met at the root of an anchored path is dropped
DropsDotDotStep ==
  (MeetsDotDot /\ CollapsedToEmpty /\ ~norm.s.is_relative) =>
    /\ Output(norm'.s) = Output(norm.s)
    /\ norm'.s.top_index = norm.s.top_index

\* no step moves the floor down, writes below it or changes what is under it
FloorStep ==
  norm.pc = "loop" =>
    /\ norm'.s.top_index >= norm.s.top_index
    /\ norm'.s.dest_i >= norm'.s.top_index
    /\ SubSeq(norm'.s.pathbuf, 1, norm.s.top_index) =
         SubSeq(norm.s.pathbuf, 1, norm.s.top_index)

\* C5: a ".." met when a relative path has collapsed to empty is kept and
\* becomes a floor that later ".." cannot remove, a ".." at the root of an
\* anchored path is dropped, and a kept ".." is followed by "/" in the
\* output iff a separator followed it in the input.
NormalizeDotDotRules ==
  [][KeepsDotDotStep /\ DropsDotDotStep /\ FloorStep]_vars

\* two ".." have accumulated as "../../" in a finished relative run
NormalizeAccumulatedWitness ==
  /\ norm.pc = "done"
  /\ norm.s.is_relative
  /\ Len(norm.s.pathbuf) >= 6
  /\ SubSeq(norm.s.pathbuf, 1, 6) = DotDotSlash \o DotDotSlash

IsSystemAbsolute(s) == s # <<>> /\ At(s, 0) = "/" /\ ~IsSourceAbsolute(s)

IsRelative(s) == s = <<>> \/ At(s, 0) # "/"

\* C6: the output is source-absolute, system-absolute or relative iff the
\* input was.
NormalizePreservesAnchor ==
  norm.pc = "done" =>
    /\ IsSourceAbsolute(norm.s.pathbuf) <=> IsSourceAbsolute(norm.input)
    /\ IsSystemAbsolute(norm.s.pathbuf) <=> IsSystemAbsolute(norm.input)
    /\ IsRelative(norm.s.pathbuf) <=> IsRelative(norm.input)


\* C2: appending RebaseSourceAbsolutePath(f, dst) to dst and normalizing
\* yields f, for every source-absolute directory dst and path f.
\* When f equals dst the result is ".".
RebaseRoundTrip ==
  reb.pc = "done" =>
    /\ NormalizePath(reb.dest_dir \o reb.ret) = reb.input
    /\ reb.input = reb.dest_dir => reb.ret = <<".">>

\* f and dst share the start of a segment but not the segment
RebasePartialSegmentWitness ==
  /\ reb.pc = "done"
  /\ reb.input = <<"/", "/", "a">>
  /\ reb.dest_dir = <<"/", "/", "a", "b", "/">>
  /\ reb.ret = <<".", ".", "/", "a">>


\* C3: for every source-absolute directory d, NormalizePath(d + InvertDir(d))
\* is "//".
InvertComposesToRoot ==
  (inv.pc = "done" /\ IsSourceAbsolute(inv.path)) =>
    NormalizePath(inv.path \o inv.ret) = <<"/", "/">>

InvertComposesWitness ==
  /\ inv.pc = "done"
  /\ inv.path = <<"/", "/", "a", "/", "a", "/">>
  /\ inv.ret = DotDotSlash \o DotDotSlash

\* the number of segments of a canonical directory after its anchor: the
\* places where a name starts
NumSegments(d) ==
  Cardinality({i \in 2..(Len(d) - 1) : ~IsSlash(At(d, i)) /\ IsSlash(At(d, i - 1))})

\* C8: InvertDir of a source-absolute directory with k segments is k copies
\* of "../"; "//out/Debug/" gives "../../", "//" and the empty directory
\* give the empty string.
InvertCountsSegments ==
  inv.pc = "done" =>
    /\ (IsSourceAbsolute(inv.path) /\ NormalizePath(inv.path) = inv.path) =>
         inv.ret = Repeat(DotDotSlash, NumSegments(inv.path))
    /\ inv.path = DocBuildDir => inv.ret = DotDotSlash \o DotDotSlash
    /\ inv.path = <<"/", "/">> => inv.ret = <<>>
    /\ inv.path = <<>> => inv.ret = <<>>

InvertBuildDirWitness ==
  inv.pc = "done" /\ inv.path = DocBuildDir /\ inv.ret = DotDotSlash \o DotDotSlash

\* the candidate lies beneath the root: the root is a prefix of the path
\* that ends at a component boundary
LiesBeneath(root, path) ==
  /\ Len(root) <= Len(path)
  /\ Substr(path, 0, Len(root)) = root
  /\ \/ Len(path) = Len(root)
     \/ EndsWithSlash(root)
     \/ IsSlash(At(path, Len(root)))

\* C7: MakeAbsolutePathRelativeIfPossible succeeds, with "//" and the rest
\* of the path, only when the candidate lies beneath the source root.
MakeRelativeOnlyBeneathRoot ==
  (mk.pc = "done" /\ mk.ok) =>
    /\ LiesBeneath(mk.source_root, mk.path)
    /\ IsSourceAbsolute(mk.dest)


\* C9: in every reachable state of every BuildSettings object,
\* build_to_source_dir_string is InvertDir(build_dir).
BuildToSourceIsInverse ==
  \A o \in BuildSettingsIds :
    bs[o].live => bs[o].build_to_source_dir_string = InvertDir(bs[o].build_dir)

\* a copy of an object whose build directory was set, itself set again
BuildToSourceWitness ==
  /\ bs.copy.live
  /\ bs.original.build_dir # <<>>
  /\ bs.copy.build_dir # <<>>
  /\ bs.copy.build_dir # bs.original.build_dir
  /\ bs.copy.build_to_source_dir_string # <<>>

Range(f) == {f[i] : i \in DOMAIN f}

\* C10: after OnResolved, inherited_libraries is: for each direct dep d that
\* is a static library or source set, d and d.inherited_libraries; for each
\* shared-library dep, d alone; nothing for deps of other kinds.
InheritedLibrariesExact ==
  \A t \in Targets :
    tg.resolved[t] =>
      tg.inherited_libraries[t] =
        UNION {IF tg.output_type[d] \in {"STATIC_LIBRARY", "SOURCE_SET"}
                 THEN {d} \cup tg.inherited_libraries[d]
               ELSE IF tg.output_type[d] = "SHARED_LIBRARY" THEN {d}
               ELSE {} : d \in Range(tg.deps[t])}

\* 3 links a shared library that hides a static library, and a static
\* library whose own inherited library comes through
InheritedLibrariesWitness ==
  /\ tg.resolved[3]
  /\ tg.output_type[1] = "STATIC_LIBRARY"
  /\ tg.output_type[2] = "SHARED_LIBRARY"
  /\ tg.deps[2] = <<1>>
  /\ tg.deps[3] = <<2>>
  /\ tg.inherited_libraries[2] = {1}
  /\ tg.inherited_libraries[3] = {2}

\* C11: a finished GenerateTarget has called ItemDefined exactly once, with
\* the target it built, when it was given exactly one string argument, a
\* known output type and no fill step raised an error; in every other case
\* it has recorded an error and has not called ItemDefined.
GenerateTargetDefinesOnSuccessOnly ==
  gen.pc = "done" =>
    IF /\ Len(gen.args) = 1
       /\ gen.args[1] = "STRING"
       /\ gen.output_type \in KnownOutputTypes
       /\ \A i \in 1..Len(gen.g.errs) : gen.g.errs[i] \notin TargetFields
      THEN gen.defined = <<gen.g.target>> /\ gen.g.err = ""
    ELSE gen.defined = <<>> /\ gen.sink = <<>> /\ gen.g.err # ""

\* a target with written fields was handed over, and the callback got it
GenerateTargetDefinedWitness ==
  /\ gen.pc = "done"
  /\ gen.defined = <<gen.g.target>>
  /\ gen.sink = gen.defined
  /\ gen.g.target["deps"] = "set"

\* C12: once a fill step of Run has recorded an error, no later fill step
\* is entered, the target is not written again, and the error recorded
\* first is the one *err holds.
RunStopsAtFirstError ==
  gen.pc # "idle" =>
    /\ gen.g.after_error = {}
    /\ gen.g.mutated_after_error = {}
    /\ gen.g.errs # <<>> => gen.g.err = gen.g.errs[1]

\* C13: a lookup of one of the eight programmatic identifiers returns the
\* value its first lookup computed, whatever was looked up or set in
\* between; a lookup of any other identifier returns no value.
ProviderReturnsFirstValue ==
  prov.pc = "live" /\ prov.ident # "" =>
    IF prov.ident \in ProgrammaticIdentifiers
      THEN /\ ~prov.ret.is_null
           /\ prov.ret = prov.first[prov.ident]
    ELSE prov.ret.is_null

\* a lookup returned a cached build directory the settings no longer have
ProviderStaleWitness ==
  /\ prov.pc = "live"
  /\ prov.ident = "root_build_dir"
  /\ ~prov.ret.is_null
  /\ prov.ret.string_value # ComputeValue("root_build_dir", prov.scope)
  /\ ~prov.cache["target_out_dir"].is_null

\* C14: ClassifyDependency puts the dep in exactly one of linkable,
\* non-linkable or expanded: a source set under a source set is
\* non-linkable, a source set under any other target is expanded to its
\* object files, any other dep is linkable iff the target is an executable
\* or a shared library and the dep is a static or shared library, and
\* non-linkable otherwise.
ClassifyDependencyTotal ==
  wr.pc = "done" =>
    LET target_type == wr.arena[wr.target].output_type
        dep_type == wr.arena[wr.dep].output_type
        linked == wr.out.linkable_deps = Append(wr.before.linkable_deps, wr.dep)
        ordered == wr.out.non_linkable_deps =
                     Append(wr.before.non_linkable_deps, wr.dep)
        expanded == wr.out.extra_object_files =
                      wr.before.extra_object_files \cup
                        ExpandSourceSet(wr.settings, wr.arena[wr.dep], 0, {})
        kept(field) == wr.out[field] = wr.before[field]
    IN /\ dep_type = "SOURCE_SET" /\ target_type = "SOURCE_SET" =>
            ordered /\ kept("linkable_deps") /\ kept("extra_object_files")
       /\ dep_type = "SOURCE_SET" /\ target_type # "SOURCE_SET" =>
            expanded /\ kept("linkable_deps") /\ kept("non_linkable_deps")
       /\ dep_type # "SOURCE_SET"
            /\ target_type \in {"EXECUTABLE", "SHARED_LIBRARY"}
            /\ dep_type \in {"STATIC_LIBRARY", "SHARED_LIBRARY"} =>
            linked /\ kept("non_linkable_deps") /\ kept("extra_object_files")
       /\ dep_type # "SOURCE_SET"
            /\ ~(/\ target_type \in {"EXECUTABLE", "SHARED_LIBRARY"}
                 /\ dep_type \in {"STATIC_LIBRARY", "SHARED_LIBRARY"}) =>
            ordered /\ kept("linkable_deps") /\ kept("extra_object_files")

\* a static library under a static library was classified while the lists
\* already held another dep
ClassifyStaticUnderStaticWitness ==
  /\ wr.pc = "done"
  /\ wr.dep = 1
  /\ wr.arena[3].output_type = "STATIC_LIBRARY"
  /\ wr.arena[1].output_type = "STATIC_LIBRARY"
  /\ wr.out.non_linkable_deps = <<2, 1>>

\* C15: for a source-set target GetDeps leaves the set of extra object
\* files empty, whatever the kinds of its deps, inherited libraries and
\* datadeps, so the DCHECK of WriteSourceSetStamp holds.
SourceSetHasNoExtraObjectFiles ==
  wr.pc = "done" /\ wr.arena[wr.target].output_type = "SOURCE_SET" =>
    wr.out.extra_object_files = {}

\* a source set with a direct and an inherited source set, both with
\* compilable sources, went through GetDeps
SourceSetOverSourceSetsWitness ==
  /\ wr.pc = "done"
  /\ \A t \in Targets : wr.arena[t].output_type = "SOURCE_SET"
  /\ wr.arena[3].deps = <<2>>
  /\ wr.arena[3].inherited_libraries = {1, 2}
  /\ wr.arena[3].datadeps = <<1>>
  /\ Len(wr.out.non_linkable_deps) = 3

\* a can be obtained from b by deleting elements
RECURSIVE IsSubsequence(_, _)
IsSubsequence(a, b) ==
  IF a = <<>> THEN TRUE
  ELSE IF b = <<>> THEN FALSE
  ELSE IF Head(a) = Head(b) THEN IsSubsequence(Tail(a), Tail(b))
  ELSE IsSubsequence(a, Tail(b))

\* list is direct deps in deps-list order followed by targets that are
\* not direct deps
DirectDepsFirst(list, deps) ==
  LET direct == {i \in 1..Len(list) : list[i] \in Range(deps)}
      last == IF direct = {} THEN 0
              ELSE CHOOSE i \in direct : \A j \in direct : j <= i
  IN IsSubsequence(SubSeq(list, 1, last), deps)

\* C17: the linkable and the non-linkable list of GetDeps hold the direct
\* deps in deps-list order, then the inherited libraries, and the
\* non-linkable list ends with the datadeps; no direct dep comes after a
\* library that is only inherited.
GetDepsPreservesOrder ==
  wr.pc = "done" =>
    LET t == wr.arena[wr.target]
        n == Len(wr.out.non_linkable_deps) - Len(t.datadeps)
    IN /\ n >= 0
       /\ SubSeq(wr.out.non_linkable_deps, n + 1, n + Len(t.datadeps))
            = t.datadeps
       /\ DirectDepsFirst(wr.out.linkable_deps, t.deps)
       /\ DirectDepsFirst(SubSeq(wr.out.non_linkable_deps, 1, n), t.deps)

\* C16: two runs of the writer on the same targets, settings and toolchain
\* emit the same text, whatever the iteration order of the set of
\* inherited libraries.
WriterOutputDeterministic ==
  wr.pc = "done" /\ wr.runs = 2 => wr.text = wr.previous

\* the lines of a text that are build statements of the given rule
BuildLinesOf(text, rule) ==
  SelectSeq(text, LAMBDA l : l.kind = "build" /\ l.rule = rule)

\* the lines of a text that set the given variable
VarLinesOf(text, name) ==
  SelectSeq(text, LAMBDA l : l.kind = "var" /\ l.name = name)

\* C18: for a target with tool type NONE that is not a source set, Run
\* emits the variable block and the compile lines and nothing else: no
\* ldflags, no libs, no link build statement.
NoToolNoLinkSection ==
  /\ wr.pc = "done"
  /\ wr.tool_type_ = "TYPE_NONE"
  /\ wr.arena[wr.target].output_type # "SOURCE_SET"
  => wr.text = WriteCompilerVars
                 \o WriteSources(wr.settings, wr.arena[wr.target]).lines

\* C19: the link build statement names the external output file alone,
\* except for a shared library on Windows, where it names the internal
\* output toolchain_output_subdir + name + ".dll" and then the external
\* import library, two distinct files; for a shared library soname is the
\* file name of the internal output and lib is the internal output, and
\* dll and implibflag are written on Windows only.
LinkStatementOutputs ==
  wr.pc = "done" /\ wr.tool_type_ # "TYPE_NONE" =>
    LET target == wr.arena[wr.target]
        shared == target.output_type = "SHARED_LIBRARY"
        win == wr.settings.target_os = "WIN"
        external == GetTargetOutputFile(wr.settings, target)
        dll == wr.settings.toolchain_output_subdir \o target.name \o <<".", "d", "l", "l">>
        internal == IF shared /\ win THEN dll ELSE external
        link == BuildLinesOf(wr.text,
                  wr.settings.rule_prefix \o ToolTypeToName(wr.tool_type_))
    IN /\ Len(link) = 1
       /\ IF shared /\ win
            THEN link[1].outputs = <<dll, external>> /\ dll # external
          ELSE link[1].outputs = <<external>>
       /\ IF shared
            THEN /\ VarLinesOf(wr.text, "soname")
                      = <<VarLine(2, "soname", <<FindFilename(internal)>>)>>
                 /\ VarLinesOf(wr.text, "lib")
                      = <<VarLine(2, "lib", <<internal>>)>>
          ELSE VarLinesOf(wr.text, "soname") = <<>>
                 /\ VarLinesOf(wr.text, "lib") = <<>>
       /\ IF shared /\ win
            THEN /\ VarLinesOf(wr.text, "dll")
                      = <<VarLine(2, "dll", <<internal>>)>>
                 /\ VarLinesOf(wr.text, "implibflag")
                      = <<VarLine(2, "implibflag",
                                  <<<<"/", "I", "M", "P", "L", "I", "B", ":">> \o external>>)>>
          ELSE VarLinesOf(wr.text, "dll") = <<>>
                 /\ VarLinesOf(wr.text, "implibflag") = <<>>

\* the platform extension of an executable, a shared library and a static
\* library
TableExtension(os, output_type) ==
  CASE os = "MAC" /\ output_type = "EXECUTABLE" -> <<>>
    [] os = "MAC" /\ output_type = "SHARED_LIBRARY" -> <<"d", "y", "l", "i", "b">>
    [] os = "MAC" /\ output_type = "STATIC_LIBRARY" -> <<"a">>
    [] os = "WIN" /\ output_type = "EXECUTABLE" -> <<"e", "x", "e">>
    [] os = "WIN" /\ output_type = "SHARED_LIBRARY" ->
         <<"d", "l", "l", ".", "l", "i", "b">>
    [] os = "WIN" /\ output_type = "STATIC_LIBRARY" -> <<"l", "i", "b">>
    [] os = "LINUX" /\ output_type = "EXECUTABLE" -> <<>>
    [] os = "LINUX" /\ output_type = "SHARED_LIBRARY" -> <<"s", "o">>
    [] os = "LINUX" /\ output_type = "STATIC_LIBRARY" -> <<"a">>

\* what follows the target's name in a file name
AfterName(file, name) ==
  CHOOSE rest \in {Substr(file, i, Len(file) - i) : i \in 0..Len(file)} :
    \E i \in 0..(Len(file) - Len(name)) :
      /\ Substr(file, i, Len(name)) = name
      /\ rest = Substr(file, i + Len(name), Len(file) - i - Len(name))
      /\ \A j \in (i + 1)..(Len(file) - Len(name)) :
           Substr(file, j, Len(name)) # name

\* C20: the output file of an executable, a shared library or a static
\* library ends in the target's name followed by '.' and output_extension
\* when the attribute is non-empty, and otherwise by the extension of the
\* table for the target OS and kind ('.' and the extension, or nothing
\* for an empty one); an empty output_extension is an unset one.
OutputFileExtension ==
  wr.pc = "done"
    /\ wr.target.output_type \in
         {"EXECUTABLE", "SHARED_LIBRARY", "STATIC_LIBRARY"} =>
    LET expected ==
          IF wr.target.output_extension # <<>> THEN wr.target.output_extension
          ELSE TableExtension(wr.settings.target_os, wr.target.output_type)
    IN AfterName(wr.file, wr.target.name) =
         (IF expected = <<>> THEN <<>> ELSE <<".">> \o expected)

\* the file of a Linux shared library named shlib with output_extension
\* "so.6" was computed
OutputExtensionOverrideWitness ==
  /\ wr.pc = "done"
  /\ wr.settings.target_os = "LINUX"
  /\ wr.target.output_type = "SHARED_LIBRARY"
  /\ wr.target.output_extension = <<"s", "o", ".", "6">>
  /\ wr.file = <<"l", "i", "b", "/", "l", "i", "b", "s", "h", "l", "i", "b",
                 ".", "s", "o", ".", "6">>

\* C21: GetSourceFileType gives cc, cpp and cxx the C++ kind, c the C kind
\* and h the header kind on every target OS, m and mm the Objective-C kinds
\* on macOS only, rc the resource kind on Windows only, capital S the
\* assembly kind off Windows only, and the unknown kind to everything else.
SourceFileTypeTable ==
  wr.pc = "done" =>
    LET extension == wr.extension
        os == wr.os
    IN wr.type =
         (CASE extension \in {<<"c", "c">>, <<"c", "p", "p">>, <<"c", "x", "x">>}
                 -> "SOURCE_CC"
            [] extension = <<"c">> -> "SOURCE_C"
            [] extension = <<"h">> -> "SOURCE_H"
            [] extension = <<"m">> /\ os = "MAC" -> "SOURCE_M"
            [] extension = <<"m", "m">> /\ os = "MAC" -> "SOURCE_MM"
            [] extension = <<"r", "c">> /\ os = "WIN" -> "SOURCE_RC"
            [] extension = <<"S">> /\ os # "WIN" -> "SOURCE_S"
            [] OTHER -> "SOURCE_UNKNOWN")

\* a capital-S file under a dotted directory was typed for Windows
SourceFileTypeAssemblyOnWindowsWitness ==
  /\ wr.pc = "done"
  /\ wr.file = <<"/", "/", "d", ".", "c", "c", "/", "a", ".", "h", ".", "S">>
  /\ wr.os = "WIN"
  /\ wr.type = "SOURCE_UNKNOWN"

\* how often an address is in the sink
TimesInSink(sink, a) == Cardinality({i \in 1..Len(sink) : sink[i] = a})

\* the threads that took the step
Stepped == {t \in Threads : thr'.threads[t] # thr.threads[t]}

\* every target whose generation ended without error is in the sink once,
\* and nothing else is
SinkHoldsGenerated ==
  /\ \A t \in Threads :
       /\ thr.threads[t].pc = "done"
       /\ thr.threads[t].err = ""
       /\ bs.original.item_defined_callback # "null"
       => thr.threads[t].target # 0
  /\ \A i \in 1..Len(thr.sink) :
       \E t \in Threads : thr.threads[t].target = thr.sink[i]
  /\ \A t \in Threads :
       LET a == thr.threads[t].target
       IN a # 0 =>
            TimesInSink(thr.sink, a) =
              (IF /\ thr.threads[t].pc = "done"
                  /\ thr.threads[t].err = ""
                  /\ bs.original.item_defined_callback # "null"
                 THEN 1 ELSE 0)
  /\ \A t \in Threads, u \in Threads :
       /\ t # u
       /\ thr.threads[t].target # 0
       /\ thr.threads[t].target = thr.threads[u].target
       => TimesInSink(thr.sink, thr.threads[t].target) = 0

\* a step writes a target only if the thread taking it created that target
\* (or creates it in this step) and the target is not in the sink; one
\* thread moves; and the sink is right after the step
OwnGenerationStep ==
  /\ \A a \in Addresses :
       thr'.heap[a] # thr.heap[a] =>
         /\ TimesInSink(thr.sink, a) = 0
         /\ \E t \in Stepped :
              \/ thr.heap[a].owner = t /\ thr.threads[t].target = a
              \/ /\ thr.heap[a].owner = 0
                 /\ thr'.heap[a].owner = t
                 /\ thr'.threads[t].target = a
  /\ Cardinality(Stepped) = 1
  /\ SinkHoldsGenerated'

\* C22: with GenerateTarget calls interleaved on several threads, a step
\* writes a target only if the thread taking it created that target and
\* the target has not been handed to the sink; and each target generated
\* without error is in the sink exactly once when a callback is installed,
\* while no other target is in it.
TargetsMutatedByOwnGeneratorOnly == [][OwnGenerationStep]_vars

\* every thread has handed a target over, each while the others were at work
ThreadsHandedOverWitness ==
  /\ \A t \in Threads : thr.threads[t].pc = "done" /\ thr.threads[t].err = ""
  /\ Len(thr.sink) = MaxThreads
  /\ \E t \in Threads : thr.heap[thr.threads[t].target].fields["deps"] = "unset"
  /\ \E t \in Threads : thr.heap[thr.threads[t].target].fields["deps"] = "set"

\* a file under a directory, or the directory itself without its slash
InsideDir(dir, file) ==
  \/ Len(file) >= Len(dir) /\ Substr(file, 0, Len(dir)) = dir
  \/ file = Substr(dir, 0, Len(dir) - 1)

\* C23: FillOutputs rejects every output located outside the build
\* directory, so the outputs a target holds are all inside it; an output
\* under //output/ is rejected for the build directory //out/.
OutputsInsideBuildDir ==
  \A i \in 1..Len(gen.target.outputs) :
    InsideDir(gen.build_dir, gen.target.outputs[i])

\* the field a fill step writes
FieldOf(step) ==
  CASE step = "FillSources" -> "sources"
    [] step = "FillSourcePrereqs" -> "source_prereqs"
    [] step = "FillData" -> "data"
    [] step = "FillOutputs" -> "outputs"
    [] step = "FillGypFile" -> "gyp_file"
    [] step = "FillHardDep" -> "hard_dep"
    [] step = "FillExternal" -> "external"

\* a call of a fill step that raised an error left the field it fills, and
\* the rest of the target, as they were
FailedFillStep ==
  gen'.errors > gen.errors =>
    /\ gen'.target[FieldOf(gen'.last.step)] = gen.target[FieldOf(gen'.last.step)]
    /\ gen'.target = gen.target

\* C30: a fill step that fails (extraction error, an output outside the
\* build directory, or a value of the wrong type) leaves the target's
\* field with the value it had before the call.
FailedFillKeepsField == [][FailedFillStep]_vars

\* FillOutputs failed on an output outside the build directory after an
\* earlier call had stored outputs
FailedFillOutputsWitness ==
  /\ gen.pc = "fill"
  /\ gen.last.step = "FillOutputs"
  /\ gen.last.value = ListValueOf(<<StringValueOf(<<"/", "/", "s", "r", "c", "/", "x">>)>>)
  /\ gen.err
  /\ gen.target.outputs = <<<<"/", "/", "o", "u", "t", "/", "x">>>>

\* the targets GetDeps classified from deps and inherited_libraries, in
\* the order it listed them: the linkable list, and the non-linkable list
\* without the datadeps at its end
ClassifiedDeps ==
  wr.out.linkable_deps
    \o SubSeq(wr.out.non_linkable_deps, 1,
              Len(wr.out.non_linkable_deps)
                - Len(wr.arena[wr.target].datadeps))

\* C24: after GetDeps no target that comes from deps or
\* inherited_libraries is listed more than once across the linkable and
\* the non-linkable list, whatever the deps list, one naming a target
\* twice included.
GetDepsDeduplicates ==
  wr.pc = "done" =>
    \A i \in 1..Len(ClassifiedDeps), j \in 1..Len(ClassifiedDeps) :
      i # j => ClassifiedDeps[i] # ClassifiedDeps[j]

\* the sources of the written target that have a compile line: the kinds
\* C, C++ and assembly with their OS rules, Objective-C on macOS, resource
\* on Windows
Compilable(file, os) ==
  LET extension == FindExtension(file)
  IN \/ extension \in {<<"c", "c">>, <<"c", "p", "p">>, <<"c", "x", "x">>, <<"c">>}
     \/ extension \in {<<"m">>, <<"m", "m">>} /\ os = "MAC"
     \/ extension = <<"r", "c">> /\ os = "WIN"
     \/ extension = <<"S">> /\ os # "WIN"

CompilableSources ==
  SelectSeq(wr.arena[wr.target].sources,
            LAMBDA f : Compilable(f, wr.settings.target_os))

\* the compile build lines of the text
CompileLines == SelectSeq(wr.text, LAMBDA l : l.kind = "build")

\* C25: WriteSources emits one compile build line per compilable source,
\* in the order of the sources list, and none for a source of unknown kind
\* or of a kind without compile rule; the object-file list holds the
\* outputs of the emitted lines in the same order.
CompileLinesInSourceOrder ==
  wr.pc \in {"ClassifyDependency", "done"} =>
    /\ Len(CompileLines) = Len(CompilableSources)
    /\ \A i \in 1..Len(CompileLines) :
         /\ CompileLines[i].inputs = <<WriteSourceFile(CompilableSources[i])>>
         /\ Len(CompileLines[i].outputs) = 1
    /\ wr.object_files =
         [i \in 1..Len(CompileLines) |-> CompileLines[i].outputs[1]]

\* a list of a header, which is skipped, and an assembly file, which is
\* compiled, was written for Linux
CompileLinesSkipWitness ==
  /\ wr.pc = "done"
  /\ wr.settings.target_os = "LINUX"
  /\ wr.arena[wr.target].sources =
       <<SourcesDir \o <<"a", ".", "h">>, SourcesDir \o <<"c", ".", "S">>>>
  /\ Len(CompileLines) = 1
  /\ wr.object_files = <<<<"o", "b", "j", "/", "f", "o", "o", "/", "b", "a", "r", ".", "c", ".", "o">>>>

OrderOnlyTail ==
  wr.pc = "done" =>
    LET statement == wr.text[1]
        non_linkable_deps == wr.deps.non_linkable_deps
        data == wr.arena[wr.target].data
    IN /\ Len(wr.text) = 1
       /\ statement.kind = "build"
       /\ statement.order_only = <<>>
            <=> non_linkable_deps = <<>> /\ data = <<>>
       /\ statement.order_only # <<>> =>
            /\ Len(statement.order_only)
                 = 1 + Len(non_linkable_deps) + Len(data)
            /\ statement.order_only[1] = <<"|", "|">>
            /\ \A i \in 1..Len(non_linkable_deps) :
                 statement.order_only[1 + i] =
                   GetTargetOutputFile(wr.settings,
                                       wr.arena[non_linkable_deps[i]])
            /\ \A i \in 1..Len(data) :
                 statement.order_only[1 + Len(non_linkable_deps) + i] =
                   RebaseSourceAbsolutePath(data[i], DocBuildDir)

\* a stamp statement was written for a source set with data files and no
\* non-linkable dep
OrderOnlyDataWitness ==
  /\ wr.pc = "done"
  /\ wr.arena[wr.target].output_type = "SOURCE_SET"
  /\ wr.deps.non_linkable_deps = <<>>
  /\ Len(wr.arena[wr.target].data) = 2
  /\ Len(wr.text[1].order_only) = 3

\* a step on a live BuildSettings object, not its replacement by a copy
\* of another: secondary_source_path changes only to a directory resolved
\* against the root path the object had before the step, in a step that
\* leaves the root path and the build directory alone
SecondarySourcePathStep ==
  \A o \in BuildSettingsIds :
    /\ bs[o].live
    /\ ~(o = "copy" /\ \E other \in BuildSettingsIds :
                         bs[other].live /\ bs'[o] = CopyBuildSettings(bs[other]))
    /\ bs'[o].secondary_source_path # bs[o].secondary_source_path
    => /\ bs'[o].root_path = bs[o].root_path
       /\ bs'[o].build_dir = bs[o].build_dir
       /\ \E d \in SecondaryDirs :
            bs'[o].secondary_source_path = Resolve(d, bs[o].root_path)

\* C28: secondary_source_path is the directory resolved against the root
\* path current when SetSecondarySourcePath is called, and no later
\* SetRootPath or SetBuildDir changes it.
SecondarySourcePathKeepsOldRoot == [][SecondarySourcePathStep]_vars

\* SetRootPath has moved the root after SetSecondarySourcePath:
\* GetFullPath resolves under the new root, GetFullPathSecondary under the
\* path made from the old one
SecondaryUnderOldRootWitness ==
  /\ bs.original.root_path = <<"/", "s">>
  /\ bs.original.secondary_source_path = <<"/", "r", "/", "a", "/">>
  /\ bs.original.build_dir # <<>>
  /\ GetFullPath(bs.original, <<"/", "/", "a", "/">>) = <<"/", "s", "/", "a", "/">>
  /\ GetFullPathSecondary(bs.original, <<"/", "/">>) = <<"/", "r", "/", "a", "/">>

\* the fields the copy constructor copies
CopiedFields ==
  {"root_path", "root_path_utf8", "secondary_source_path", "python_path",
   "build_config_file", "build_dir", "build_to_source_dir_string",
   "build_args"}

\* a step of the original and its copy: the construction of the copy takes
\* the copied fields and no callback and leaves the original alone; a
\* callback appears on an object only as the one installed on that object;
\* ItemDefined on an object without callback delivers nothing, and what a
\* callback receives is one item, from the object it is installed on
CopyWithoutCallbackStep ==
  /\ ~bs.copy.live /\ bs'.copy.live
     => /\ \A f \in CopiedFields : bs'.copy[f] = bs.original[f]
        /\ bs'.copy.item_defined_callback = "null"
        /\ bs'.original = bs.original
        /\ bs'.delivered = bs.delivered
  /\ \A o \in BuildSettingsIds :
       /\ bs'[o].item_defined_callback \in {"null", o}
       /\ bs'.defined[o] # bs.defined[o] /\ bs[o].item_defined_callback = "null"
          => bs'.delivered = bs.delivered
       /\ bs'.defined[o] # bs.defined[o] /\ bs[o].item_defined_callback # "null"
          => bs'.delivered = [bs.delivered EXCEPT ![o] = Append(@, o)]
       /\ bs'.delivered[o] # bs.delivered[o]
          => /\ bs'.defined[o] = bs.defined[o] + 1
             /\ bs[o].item_defined_callback = o

\* C29: the copy constructor copies the paths, the build dir, its inverse
\* and the build args but not the item-defined callback, so ItemDefined on
\* the copy drops the item, and never reaches the callback of the original,
\* until a callback is installed on the copy; ItemDefined on the original
\* still reaches the original's callback.
CopyHasNoItemDefinedCallback == [][CopyWithoutCallbackStep]_vars

\* the original has a callback, the copy made from it has none; ItemDefined
\* was called on both and only the original's item arrived
CopyDropsItemWitness ==
  /\ bs.calls > 0
  /\ bs.copy.live
  /\ bs.original.item_defined_callback = "original"
  /\ bs.copy.item_defined_callback = "null"
  /\ bs.defined.copy = 1 /\ bs.defined.original = 1
  /\ bs.delivered.original = <<"original">>
  /\ bs.delivered.copy = <<>>

====
